---- MODULE Spec2Model ----
(***************************************************************************)
(* Model of the dialogue orchestration core of the chatter repository:     *)
(*   - ConversationStateMachine (scripts/testing/ig_state_machine.py)      *)
(*   - TensionTracker           (scripts/testing/ig_tension_tracker.py)    *)
(*   - IntentPromptBuilder      (scripts/testing/ig_intent_prompts.py)     *)
(*   - detect_intent            (scripts/testing/ig_intent_detector.py)    *)
(*   - MoodState                (scripts/testing/ig_mood.py)               *)
(*   - ConversationMemory,                                                 *)
(*     MemoryManager            (scripts/testing/ig_memory.py)             *)
(*                                                                         *)
(* A message is a sequence of phrases of a small vocabulary.  A regular    *)
(* expression list of the source is modelled by the set of vocabulary      *)
(* phrases in which one of its expressions finds a match; a list matches   *)
(* a message when it matches one of its phrases (re.search).               *)
(***************************************************************************)
EXTENDS Integers, Sequences, FiniteSets, TLC

\* ------------------------------------------------------------------ bounds
MaxFanMessages == 5
MaxBotMessages == 2
MaxImages == 0

\* ------------------------------------------------------- program constants
COLD_THRESHOLD == 4

None == "None"

\* Phase (enum)
Phases == {"OPENER", "LOCATION", "SMALL_TALK", "DEFLECTION", "OF_PITCH",
           "POST_PITCH", "COLD"}

\* ------------------------------------------------------------- vocabulary
\* inbound (fan) messages
FanMessages ==
    { <<"hey">>, <<"im from denver">>, <<"i live in ohio">>,
      <<"lets meet up">>, <<"send me a pic">>,
      <<"you are so hot">>, <<"i just subscribed">> }

\* self-authored replies; <<>> is the empty reply of a silent turn
BotResponses ==
    { <<>>, <<"check my of">>, <<"im visiting there too">>,
      <<"im visiting there too", "subscribe to see more">> }

ImageLists == { <<>>, <<"selfie">> }

\* scenarios handed to initialize_with_scenario
Scenarios ==
    { [id |-> "car_accident", mood |-> "stressed", is_sob_story |-> TRUE] }

\* ------------------------------------------------- pattern lists (matchers)
Matches(patterns, message) ==
    \E i \in 1..Len(message) : message[i] \in patterns

\* city found in the phrase by the US_CITIES scan, title-cased
US_CITIES == [p \in {"im from denver"} |-> "Denver"]

\* group(1) of the first LOCATION_PATTERNS match, title-cased
LOCATION_PATTERNS == [p \in {"i live in ohio"} |-> "Ohio"]

MEETUP_PATTERNS == {"lets meet up"}

PIC_REQUEST_PATTERNS == {"send me a pic"}

SEXUAL_PATTERNS == {"you are so hot"}

OF_PATTERNS == {"check my of", "subscribe to see more"}

FAN_SUBSCRIBED_PATTERNS == {"i just subscribed"}

visiting_patterns == {"im visiting there too"}

FirstIn(table, message) ==
    LET hits == {i \in 1..Len(message) : message[i] \in DOMAIN table}
    IN  table[message[CHOOSE i \in hits : \A j \in hits : i <= j]]

detect_location(message) ==
    IF \E i \in 1..Len(message) : message[i] \in DOMAIN US_CITIES
    THEN FirstIn(US_CITIES, message)
    ELSE IF \E i \in 1..Len(message) : message[i] \in DOMAIN LOCATION_PATTERNS
         THEN FirstIn(LOCATION_PATTERNS, message)
         ELSE None

detect_meetup_request(message) == Matches(MEETUP_PATTERNS, message)

detect_pic_request(message) == Matches(PIC_REQUEST_PATTERNS, message)

detect_sexual_escalation(message) == Matches(SEXUAL_PATTERNS, message)

detect_of_mention(response) == Matches(OF_PATTERNS, response)

detect_fan_subscribed(message) == Matches(FAN_SUBSCRIBED_PATTERNS, message)

\* ------------------------------------------------------ ConversationState
ConversationState ==
    [ phase               |-> "OPENER",
      scenario_id         |-> None,
      mood                |-> None,
      sob_story_active    |-> FALSE,
      location_detected   |-> FALSE,
      location            |-> None,
      location_matched    |-> FALSE,
      of_mentioned        |-> FALSE,
      of_mention_count    |-> 0,
      meetup_requests     |-> 0,
      pic_requests        |-> 0,
      sexual_escalation   |-> FALSE,
      message_count       |-> 0,
      fan_message_count   |-> 0,
      her_message_count   |-> 0,
      images_sent         |-> <<>>,
      post_pitch_messages |-> 0,
      fan_subscribed      |-> FALSE,
      last_activity       |-> 0 ]

\* ----------------------------------------------- ConversationStateMachine
\* the cold test of _update_phase without its conversion guard
should_go_cold_IgnoreSubscribed(s) ==
    s.post_pitch_messages >= COLD_THRESHOLD

\* the cold test of _update_phase one message late (> for >=)
should_go_cold_Late(s) ==
    ~s.fan_subscribed /\ s.post_pitch_messages > COLD_THRESHOLD

\* the test of the POST_PITCH branch of _update_phase
should_go_cold(s) ==
    ~s.fan_subscribed /\ s.post_pitch_messages >= COLD_THRESHOLD

initialize_with_scenario(s, scenario_id, mood, is_sob_story) ==
    [s EXCEPT !.scenario_id = scenario_id,
              !.mood = mood,
              !.sob_story_active = is_sob_story,
              !.phase = "SMALL_TALK"]

\* the OF_PITCH trigger with a second explicit-content request required
should_pitch_of_Strict(s) ==
    (s.meetup_requests >= 2 \/ s.pic_requests > 1 \/ s.sexual_escalation)
    /\ ~s.of_mentioned

\* the OF_PITCH trigger that fires on the first meetup request already
should_pitch_of_Eager(s) ==
    (s.meetup_requests >= 1 \/ s.pic_requests > 0 \/ s.sexual_escalation)
    /\ ~s.of_mentioned

\* the OF_PITCH trigger of _update_phase
should_pitch_of(s) ==
    (s.meetup_requests >= 2 \/ s.pic_requests > 0 \/ s.sexual_escalation)
    /\ ~s.of_mentioned

\* _update_phase that deflects once: a conversation already in DEFLECTION
\* moves on to the later rules
update_phase_DeflectOnce(s) ==
    IF s.phase = "COLD"
    THEN IF s.fan_subscribed THEN [s EXCEPT !.phase = "POST_PITCH"] ELSE s
    ELSE IF s.phase = "POST_PITCH"
    THEN IF should_go_cold(s) THEN [s EXCEPT !.phase = "COLD"] ELSE s
    ELSE IF should_pitch_of(s)
    THEN [s EXCEPT !.phase = "OF_PITCH"]
    ELSE IF s.meetup_requests = 1 /\ ~s.of_mentioned /\ s.phase # "DEFLECTION"
    THEN [s EXCEPT !.phase = "DEFLECTION"]
    ELSE IF s.location_detected /\ ~s.location_matched
    THEN [s EXCEPT !.phase = "LOCATION"]
    ELSE IF s.location_matched
    THEN [s EXCEPT !.phase = "SMALL_TALK"]
    ELSE IF s.fan_message_count <= 2
    THEN [s EXCEPT !.phase = "OPENER"]
    ELSE [s EXCEPT !.phase = "SMALL_TALK"]

\* _update_phase whose OPENER rule only keeps a conversation that is in OPENER
update_phase_StayOpener(s) ==
    IF s.phase = "COLD"
    THEN IF s.fan_subscribed THEN [s EXCEPT !.phase = "POST_PITCH"] ELSE s
    ELSE IF s.phase = "POST_PITCH"
    THEN IF should_go_cold(s) THEN [s EXCEPT !.phase = "COLD"] ELSE s
    ELSE IF should_pitch_of(s)
    THEN [s EXCEPT !.phase = "OF_PITCH"]
    ELSE IF s.meetup_requests = 1 /\ ~s.of_mentioned
    THEN [s EXCEPT !.phase = "DEFLECTION"]
    ELSE IF s.location_detected /\ ~s.location_matched
    THEN [s EXCEPT !.phase = "LOCATION"]
    ELSE IF s.location_matched
    THEN [s EXCEPT !.phase = "SMALL_TALK"]
    ELSE IF s.phase = "OPENER" /\ s.fan_message_count <= 2
    THEN [s EXCEPT !.phase = "OPENER"]
    ELSE [s EXCEPT !.phase = "SMALL_TALK"]

\* _update_phase whose POST_PITCH rule falls through to the counter rules
\* when the conversation does not go cold
update_phase_NoPostPitchReturn(s) ==
    IF s.phase = "COLD"
    THEN IF s.fan_subscribed THEN [s EXCEPT !.phase = "POST_PITCH"] ELSE s
    ELSE IF s.phase = "POST_PITCH" /\ should_go_cold(s)
    THEN [s EXCEPT !.phase = "COLD"]
    ELSE IF should_pitch_of(s)
    THEN [s EXCEPT !.phase = "OF_PITCH"]
    ELSE IF s.meetup_requests = 1 /\ ~s.of_mentioned
    THEN [s EXCEPT !.phase = "DEFLECTION"]
    ELSE IF s.location_detected /\ ~s.location_matched
    THEN [s EXCEPT !.phase = "LOCATION"]
    ELSE IF s.location_matched
    THEN [s EXCEPT !.phase = "SMALL_TALK"]
    ELSE IF s.fan_message_count <= 2
    THEN [s EXCEPT !.phase = "OPENER"]
    ELSE [s EXCEPT !.phase = "SMALL_TALK"]

update_phase(s) ==
    IF s.phase = "COLD"
    THEN IF s.fan_subscribed THEN [s EXCEPT !.phase = "POST_PITCH"] ELSE s
    ELSE IF s.phase = "POST_PITCH"
    THEN IF should_go_cold(s) THEN [s EXCEPT !.phase = "COLD"] ELSE s
    ELSE IF should_pitch_of(s)
    THEN [s EXCEPT !.phase = "OF_PITCH"]
    ELSE IF s.meetup_requests = 1 /\ ~s.of_mentioned
    THEN [s EXCEPT !.phase = "DEFLECTION"]
    ELSE IF s.location_detected /\ ~s.location_matched
    THEN [s EXCEPT !.phase = "LOCATION"]
    ELSE IF s.location_matched
    THEN [s EXCEPT !.phase = "SMALL_TALK"]
    ELSE IF s.fan_message_count <= 2
    THEN [s EXCEPT !.phase = "OPENER"]
    ELSE [s EXCEPT !.phase = "SMALL_TALK"]

process_fan_message(s, message, now) ==
    LET s1 == [s EXCEPT !.message_count = @ + 1,
                        !.fan_message_count = @ + 1,
                        !.last_activity = now]
        location == detect_location(message)
        s2 == IF location # None /\ ~s1.location_detected
              THEN [s1 EXCEPT !.location_detected = TRUE, !.location = location]
              ELSE s1
        s3 == IF detect_meetup_request(message)
              THEN [s2 EXCEPT !.meetup_requests = @ + 1] ELSE s2
        s4 == IF detect_pic_request(message)
              THEN [s3 EXCEPT !.pic_requests = @ + 1] ELSE s3
        s5 == IF detect_sexual_escalation(message) /\ s4.fan_message_count > 3
              THEN [s4 EXCEPT !.sexual_escalation = TRUE] ELSE s4
        s6 == IF detect_fan_subscribed(message)
              THEN [s5 EXCEPT !.fan_subscribed = TRUE] ELSE s5
        s7 == IF s6.of_mentioned /\ ~s6.fan_subscribed
              THEN [s6 EXCEPT !.post_pitch_messages = @ + 1] ELSE s6
    IN  update_phase(s7)

\* process_bot_response that records the mention but leaves the phase alone
process_bot_response_NoPhase(s, response, images_sent) ==
    LET s1 == [s EXCEPT !.her_message_count = @ + 1]
        s2 == IF detect_of_mention(response)
              THEN [s1 EXCEPT !.of_mentioned = TRUE, !.of_mention_count = @ + 1]
              ELSE s1
        s3 == [s2 EXCEPT !.images_sent = @ \o images_sent]
    IN  IF s3.location_detected /\ ~s3.location_matched
           /\ Matches(visiting_patterns, response)
        THEN [s3 EXCEPT !.location_matched = TRUE]
        ELSE s3

\* process_bot_response that stores whether this reply has a reveal marker
process_bot_response_Overwrite(s, response, images_sent) ==
    LET s1 == [s EXCEPT !.her_message_count = @ + 1,
                        !.of_mentioned = detect_of_mention(response)]
        s2 == IF detect_of_mention(response)
              THEN [s1 EXCEPT !.of_mention_count = @ + 1,
                              !.phase = "POST_PITCH"]
              ELSE s1
        s3 == [s2 EXCEPT !.images_sent = @ \o images_sent]
    IN  IF s3.location_detected /\ ~s3.location_matched
           /\ Matches(visiting_patterns, response)
        THEN [s3 EXCEPT !.location_matched = TRUE]
        ELSE s3

process_bot_response(s, response, images_sent) ==
    LET s1 == [s EXCEPT !.her_message_count = @ + 1]
        s2 == IF detect_of_mention(response)
              THEN [s1 EXCEPT !.of_mentioned = TRUE,
                              !.of_mention_count = @ + 1,
                              !.phase = "POST_PITCH"]
              ELSE s1
        s3 == [s2 EXCEPT !.images_sent = @ \o images_sent]
    IN  IF s3.location_detected /\ ~s3.location_matched
           /\ Matches(visiting_patterns, response)
        THEN [s3 EXCEPT !.location_matched = TRUE]
        ELSE s3

\* ------------------------------------------------------------ intent rules
\* TensionLevel (enum values)
DEFLECT == 1
TEASE == 2
HINT == 3
REVEAL == 4

\* characters of each vocabulary phrase (len())
PhraseLen ==
    ( "hey" :> 3 @@ "ur cute" :> 7 @@ "send me a pic" :> 13
      @@ "lets meet up" :> 12 @@ "not paying for that" :> 19
      @@ "i just subscribed" :> 17 @@ "haha ok" :> 7
      @@ "whats your snap" :> 15 @@ "ur beautiful" :> 12 @@ "wyd?" :> 4 )

\* len() of a message: its phrases joined by single blanks
RECURSIVE MessageLen(_)
MessageLen(message) ==
    IF message = <<>> THEN 0
    ELSE IF Len(message) = 1 THEN PhraseLen[message[1]]
    ELSE PhraseLen[message[1]] + 1 + MessageLen(Tail(message))

INTENT_PRIORITY ==
    << "SUBSCRIBED", "HOSTILE", "OBJECTION", "PIC_REQUEST", "SEXUAL",
       "MEETUP_REQUEST", "SKEPTICAL", "CONTACT_REQUEST", "OF_QUESTION",
       "EMOTIONAL", "COMPLIMENT", "LOCATION_SHARE", "LOCATION_ASK", "GREETING" >>

\* for each label, the vocabulary phrases one of its rules matches, with the
\* length of the matched span (len(match.group()))
INTENT_PATTERNS ==
    [ label \in {INTENT_PRIORITY[i] : i \in 1..Len(INTENT_PRIORITY)} |->
        CASE label = "SUBSCRIBED"      -> ("i just subscribed" :> 17)
          [] label = "OBJECTION"       -> ("not paying for that" :> 10)
          [] label = "PIC_REQUEST"     -> ("send me a pic" :> 13)
          [] label = "MEETUP_REQUEST"  -> ("lets meet up" :> 9)
          [] label = "CONTACT_REQUEST" -> ("whats your snap" :> 15)
          [] label = "COMPLIMENT"      -> ("ur cute" :> 7 @@ "ur beautiful" :> 12)
          [] OTHER                     -> << >> ]

\* GREETING rules are anchored (^hey+\s*$): they match the whole message only
GREETING_PATTERNS == ("hey" :> 3)

\* the span matched in the message by the rules of a label, 0 when none matches
MatchLen(label, message) ==
    IF label = "GREETING"
    THEN IF Len(message) = 1 /\ message[1] \in DOMAIN GREETING_PATTERNS
         THEN GREETING_PATTERNS[message[1]] ELSE 0
    ELSE IF \E i \in 1..Len(message) : message[i] \in DOMAIN INTENT_PATTERNS[label]
         THEN FirstIn(INTENT_PATTERNS[label], message)
         ELSE 0

\* detect_intent that returns the label with the longest matched span
detect_intent_Longest(message) ==
    LET hits == {i \in 1..Len(INTENT_PRIORITY) :
                    MatchLen(INTENT_PRIORITY[i], message) > 0}
    IN  IF hits = {}
        THEN [name |-> "GENERIC", confidence |-> 50]
        ELSE LET first == CHOOSE i \in hits : \A j \in hits :
                              \/ MatchLen(INTENT_PRIORITY[i], message)
                                   > MatchLen(INTENT_PRIORITY[j], message)
                              \/ /\ MatchLen(INTENT_PRIORITY[i], message)
                                      = MatchLen(INTENT_PRIORITY[j], message)
                                 /\ i <= j
                 match_len == MatchLen(INTENT_PRIORITY[first], message)
                 msg_len == IF MessageLen(message) > 1 THEN MessageLen(message) ELSE 1
                 conf == 50 + (match_len * 50) \div msg_len
             IN  [name |-> INTENT_PRIORITY[first],
                  confidence |-> IF conf < 100 THEN conf ELSE 100]

\* Intent(name, confidence); the confidence is in percent
detect_intent(message) ==
    LET hits == {i \in 1..Len(INTENT_PRIORITY) :
                    MatchLen(INTENT_PRIORITY[i], message) > 0}
    IN  IF hits = {}
        THEN [name |-> "GENERIC", confidence |-> 50]
        ELSE LET first == CHOOSE i \in hits : \A j \in hits : i <= j
                 match_len == MatchLen(INTENT_PRIORITY[first], message)
                 msg_len == IF MessageLen(message) > 1 THEN MessageLen(message) ELSE 1
                 conf == 50 + (match_len * 50) \div msg_len
             IN  [name |-> INTENT_PRIORITY[first],
                  confidence |-> IF conf < 100 THEN conf ELSE 100]

escalation_intents ==
    {"PIC_REQUEST", "SEXUAL", "MEETUP_REQUEST", "CONTACT_REQUEST", "COMPLIMENT"}

is_escalation(intent) == intent.name \in escalation_intents

\* ------------------------------------------------------------ TensionState
TensionState ==
    [ escalation_count          |-> 0,
      current_level             |-> DEFLECT,
      conversion_state          |-> "PRE_PITCH",
      of_revealed               |-> FALSE,
      messages_since_pitch      |-> 0,
      escalation_types          |-> <<>>,
      objection_detected        |-> FALSE,
      message_count             |-> 0,
      rapport_score             |-> 0,
      proactive_pitch_suggested |-> FALSE ]

\* reveal probabilities in percent
REVEAL_PROBABILITY == (1 :> 5 @@ 2 :> 10 @@ 3 :> 25 @@ 4 :> 50 @@ 5 :> 75)

DEFAULT_PROBABILITY == 90

\* a table whose first row is 0%
get_reveal_probability_Late(escalation_count) ==
    IF escalation_count = 1 THEN 0
    ELSE IF escalation_count \in DOMAIN REVEAL_PROBABILITY
    THEN REVEAL_PROBABILITY[escalation_count]
    ELSE DEFAULT_PROBABILITY

get_reveal_probability(escalation_count) ==
    IF escalation_count \in DOMAIN REVEAL_PROBABILITY
    THEN REVEAL_PROBABILITY[escalation_count]
    ELSE DEFAULT_PROBABILITY

\* a draw that also succeeds on the threshold itself
should_reveal_of_Inclusive(escalation_count, roll) ==
    roll <= get_reveal_probability(escalation_count)

\* roll: the percent bucket of random.random(), 0..99
should_reveal_of(escalation_count, roll) ==
    roll < get_reveal_probability(escalation_count)

\* the level table of record_escalation with its last two rows exchanged
level_for_count_Swapped(escalation_count) ==
    IF escalation_count = 1 THEN DEFLECT
    ELSE IF escalation_count = 2 THEN HINT
    ELSE TEASE

\* the level table of record_escalation without its HINT row
level_for_count_NoHint(escalation_count) ==
    IF escalation_count = 1 THEN DEFLECT
    ELSE TEASE

\* the level of an escalation that does not reveal
level_for_count(escalation_count) ==
    IF escalation_count = 1 THEN DEFLECT
    ELSE IF escalation_count = 2 THEN TEASE
    ELSE HINT

\* dict lookup with the default of get_state
get_state(convs, conversation_id) ==
    IF conversation_id \in DOMAIN convs THEN convs[conversation_id] ELSE TensionState

\* a store whose keys all hold the one state object last written
Put_Shared(dict, key, value) ==
    [k \in DOMAIN dict \cup {key} |-> value]

Put(dict, key, value) ==
    [k \in DOMAIN dict \cup {key} |-> IF k = key THEN value ELSE dict[k]]

\* record_escalation without the early return of a revealed conversation
record_escalation_NoEarlyReturn(t, intent_name, roll) ==
    LET t1 == [t EXCEPT !.escalation_count = @ + 1,
                        !.escalation_types = Append(@, intent_name)]
        t2 == IF should_reveal_of(t1.escalation_count, roll)
              THEN [t1 EXCEPT !.current_level = REVEAL, !.of_revealed = TRUE]
              ELSE [t1 EXCEPT !.current_level = level_for_count(t1.escalation_count)]
    IN  [state |-> t2, level |-> t2.current_level]

\* record_escalation on the TensionState t: the new state and the returned level
record_escalation(t, intent_name, roll) ==
    IF t.of_revealed
    THEN [state |-> t, level |-> REVEAL]
    ELSE LET t1 == [t EXCEPT !.escalation_count = @ + 1,
                             !.escalation_types = Append(@, intent_name)]
             t2 == IF should_reveal_of(t1.escalation_count, roll)
                   THEN [t1 EXCEPT !.current_level = REVEAL, !.of_revealed = TRUE]
                   ELSE [t1 EXCEPT !.current_level = level_for_count(t1.escalation_count)]
         IN  [state |-> t2, level |-> t2.current_level]

record_of_pitch(t) ==
    [t EXCEPT !.of_revealed = TRUE,
              !.conversion_state = "PITCHED",
              !.messages_since_pitch = 0]

record_message_after_pitch(t) ==
    IF t.conversion_state = "PITCHED"
    THEN LET t1 == [t EXCEPT !.messages_since_pitch = @ + 1]
         IN  IF t1.messages_since_pitch >= 3
             THEN [t1 EXCEPT !.conversion_state = "RESISTANT"]
             ELSE t1
    ELSE t

record_interest(t) == [t EXCEPT !.conversion_state = "INTERESTED"]

record_resistance(t) == [t EXCEPT !.conversion_state = "RESISTANT"]

\* record_conversion that also forgets an earlier objection
record_conversion_Forgiving(t) ==
    [t EXCEPT !.conversion_state = "CONVERTED", !.objection_detected = FALSE]

record_conversion(t) == [t EXCEPT !.conversion_state = "CONVERTED"]

record_objection(t) ==
    [t EXCEPT !.objection_detected = TRUE, !.conversion_state = "RESISTANT"]

\* --------------------------------------------------------------- MoodState
\* engagement, warmth, patience in hundredths
MoodState == [engagement |-> 50, warmth |-> 50, patience |-> 100]

BORING_OPENERS == {"hey"}

CREEPY_WORDS == {}

pushy_intents == {"PIC_REQUEST", "MEETUP_REQUEST", "CONTACT_REQUEST", "SEXUAL"}

demanding_words == {"send me a pic"}

sweet_words == {"ur beautiful"}

playful_indicators == {"haha ok"}

question_mark == {"wyd?"}

positive_signals == {"haha ok"}

\* max(0.0, min(1.0, x)) without its lower limit
Clamp_NoFloor(x) == IF x > 100 THEN 100 ELSE x

Clamp(x) == IF x < 0 THEN 0 ELSE IF x > 100 THEN 100 ELSE x

\* update in which a sweet message wins back some patience
mood_update_Forgiving(mood, fan_message, intent) ==
    LET boring == (Len(fan_message) = 1 /\ fan_message[1] \in BORING_OPENERS)
                  \/ MessageLen(fan_message) <= 3
        playful == Matches(playful_indicators, fan_message)
        demanding == Matches(demanding_words, fan_message)
        engagement == mood.engagement
            - (IF boring THEN 10 ELSE 0)
            + (IF MessageLen(fan_message) > 50 THEN 10 ELSE 0)
            + (IF Matches(question_mark, fan_message) THEN 5 ELSE 0)
            + (IF playful THEN 5 ELSE 0)
        patience == mood.patience
            - (IF intent \in pushy_intents THEN 15 ELSE 0)
            - (IF demanding THEN 5 ELSE 0)
            + (IF Matches(sweet_words, fan_message) /\ intent # "SEXUAL" THEN 5 ELSE 0)
        warmth == mood.warmth
            + (IF intent = "COMPLIMENT"
               THEN IF ~Matches(CREEPY_WORDS, fan_message) THEN 10 ELSE -5
               ELSE 0)
            - (IF demanding THEN 5 ELSE 0)
            + (IF Matches(sweet_words, fan_message) /\ intent # "SEXUAL" THEN 5 ELSE 0)
            + (IF playful THEN 3 ELSE 0)
    IN  [engagement |-> Clamp(engagement),
         warmth     |-> Clamp(warmth),
         patience   |-> Clamp(patience)]

mood_update(mood, fan_message, intent) ==
    LET boring == (Len(fan_message) = 1 /\ fan_message[1] \in BORING_OPENERS)
                  \/ MessageLen(fan_message) <= 3
        playful == Matches(playful_indicators, fan_message)
        demanding == Matches(demanding_words, fan_message)
        engagement == mood.engagement
            - (IF boring THEN 10 ELSE 0)
            + (IF MessageLen(fan_message) > 50 THEN 10 ELSE 0)
            + (IF Matches(question_mark, fan_message) THEN 5 ELSE 0)
            + (IF playful THEN 5 ELSE 0)
        patience == mood.patience
            - (IF intent \in pushy_intents THEN 15 ELSE 0)
            - (IF demanding THEN 5 ELSE 0)
        warmth == mood.warmth
            + (IF intent = "COMPLIMENT"
               THEN IF ~Matches(CREEPY_WORDS, fan_message) THEN 10 ELSE -5
               ELSE 0)
            - (IF demanding THEN 5 ELSE 0)
            + (IF Matches(sweet_words, fan_message) /\ intent # "SEXUAL" THEN 5 ELSE 0)
            + (IF playful THEN 3 ELSE 0)
    IN  [engagement |-> Clamp(engagement),
         warmth     |-> Clamp(warmth),
         patience   |-> Clamp(patience)]

get_response_style(mood) ==
    IF mood.patience < 30 THEN "ANNOYED"
    ELSE IF mood.engagement < 30 THEN "BORED"
    ELSE IF mood.engagement > 70 THEN "ENGAGED"
    ELSE IF mood.warmth > 70 THEN "FLIRTY"
    ELSE IF mood.warmth < 30 THEN "GUARDED"
    ELSE "NEUTRAL"

mood_reset(mood) == [engagement |-> 50, warmth |-> 50, patience |-> 100]

get_mood(moods, conversation_id) ==
    IF conversation_id \in DOMAIN moods THEN moods[conversation_id] ELSE MoodState

\* reset_mood: the new mood dictionary
reset_mood(moods, conversation_id) ==
    IF conversation_id \in DOMAIN moods
    THEN Put(moods, conversation_id, mood_reset(moods[conversation_id]))
    ELSE Put(moods, conversation_id, MoodState)

\* ------------------------------------------------------ IntentPromptBuilder
\* rapport_score in tenths
update_rapport_score(t, intent, fan_message) ==
    LET score_delta ==
            (CASE intent.name = "COMPLIMENT" -> 5
               [] intent.name = "QUESTION"   -> 3
               [] intent.name = "SMALL_TALK" -> 2
               [] intent.name = "GREETING"   -> 1
               [] OTHER -> 0)
            + (IF MessageLen(fan_message) > 50 THEN 2 ELSE 0)
            + (IF Matches(positive_signals, fan_message) THEN 1 ELSE 0)
    IN  [t EXCEPT !.rapport_score =
            IF @ + score_delta < 100 THEN @ + score_delta ELSE 100]

\* _should_proactive_pitch that does not look at proactive_pitch_suggested
should_proactive_pitch_Repeating(t) ==
    IF t.of_revealed \/ t.objection_detected
    THEN FALSE
    ELSE t.message_count >= 4

should_proactive_pitch(t) ==
    IF t.of_revealed \/ t.objection_detected \/ t.proactive_pitch_suggested
    THEN FALSE
    ELSE t.message_count >= 4

\* the sections of _build_intent_section
build_intent_section(tension_level) ==
    {"INTENT"} \cup (IF tension_level = REVEAL THEN {"OF_LINK"} ELSE {})

\* build_prompt: the new tracker and mood dictionaries and the returned
\* (prompt, intent, tension_level); the prompt is the set of its sections
build_prompt(convs, moods, fan_message, conversation_id, memory_context, roll, hook_roll) ==
    LET intent == detect_intent(fan_message)
        t0 == get_state(convs, conversation_id)
        t1 == [t0 EXCEPT !.message_count = @ + 1]
        t2 == update_rapport_score(t1, intent, fan_message)
        t3 == IF intent.name = "OBJECTION" THEN record_objection(t2) ELSE t2
        esc == record_escalation(t3, intent.name, roll)
        t4 == IF is_escalation(intent) THEN esc.state ELSE t3
        tension_level == IF is_escalation(intent) THEN esc.level ELSE t3.current_level
        mood == mood_update(get_mood(moods, conversation_id), fan_message, intent.name)
        pitch == should_proactive_pitch(t4)
        t5 == IF pitch THEN [t4 EXCEPT !.proactive_pitch_suggested = TRUE] ELSE t4
        prompt ==
            {"ANTI_REPETITION", "PERSONA", "CORE_RULES", get_response_style(mood)}
            \cup (IF mood.engagement < 60 /\ hook_roll < 30 THEN {"HOOK"} ELSE {})
            \cup (IF memory_context THEN {"MEMORY"} ELSE {})
            \cup build_intent_section(tension_level)
            \cup (IF pitch THEN {"PROACTIVE_PITCH"} ELSE {})
            \cup (IF t5.of_revealed THEN {"POST_REVEAL"} ELSE {})
            \cup (IF t5.objection_detected THEN {"OBJECTION"} ELSE {})
    IN  [conversations |-> Put(convs, conversation_id, t5),
         mood_states   |-> Put(moods, conversation_id, mood),
         prompt        |-> prompt,
         intent        |-> intent,
         tension_level |-> tension_level]


\* ------------------------------------------------------- ConversationMemory
FanIds == {"f1", "f2"}

\* ConversationMemory(fan_id=...), created at time now
ConversationMemory(fan_id, now) ==
    [ fan_id       |-> fan_id,
      created_at   |-> now,
      last_active  |-> now,
      messages     |-> <<>>,
      used_phrases |-> <<>>,
      fan_profile  |-> ( "name" :> None @@ "location" :> None
                         @@ "interests" :> <<>> @@ "job" :> None
                         @@ "age" :> None @@ "relationship_status" :> None
                         @@ "platform_preferences" :> <<>> ),
      topics_covered |-> <<>>,
      state        |-> [ phase              |-> "opener",
                         of_mentioned       |-> FALSE,
                         of_subscribed      |-> FALSE,
                         meetup_requests    |-> 0,
                         rapport_level      |-> 1,
                         conversation_count |-> 0 ] ]

\* to_dict that leaves the topics out
to_dict_NoTopics(memory) ==
    ( "fan_id" :> memory.fan_id @@ "created_at" :> memory.created_at
      @@ "last_active" :> memory.last_active
      @@ "messages" :> memory.messages
      @@ "used_phrases" :> memory.used_phrases
      @@ "fan_profile" :> memory.fan_profile
      @@ "state" :> memory.state )

\* ConversationMemory.to_dict: the dict given to json.dumps
to_dict(memory) ==
    ( "fan_id" :> memory.fan_id @@ "created_at" :> memory.created_at
      @@ "last_active" :> memory.last_active
      @@ "messages" :> memory.messages
      @@ "used_phrases" :> memory.used_phrases
      @@ "fan_profile" :> memory.fan_profile
      @@ "state" :> memory.state
      @@ "topics_covered" :> memory.topics_covered )

\* dict.get(key, default)
Get(data, key, default) == IF key \in DOMAIN data THEN data[key] ELSE default

\* ConversationMemory.from_dict of a dict that has the key fan_id
from_dict(data, now) ==
    [ fan_id       |-> data["fan_id"],
      created_at   |-> Get(data, "created_at", now),
      last_active  |-> Get(data, "last_active", now),
      messages     |-> Get(data, "messages", <<>>),
      used_phrases |-> Get(data, "used_phrases", <<>>),
      fan_profile  |-> Get(data, "fan_profile",
                           ConversationMemory(data["fan_id"], now).fan_profile),
      topics_covered |-> Get(data, "topics_covered", <<>>),
      state        |-> Get(data, "state", ConversationMemory(data["fan_id"], now).state) ]

\* --------------------------------------------- phrase tracking (add_phrase)
\* a phrase is a string, modelled as the sequence of its characters
\* str.lower on a character
lower_char(c) ==
    CASE c = "A" -> "a" [] c = "B" -> "b" [] c = "C" -> "c"
      [] c = "D" -> "d" [] c = "E" -> "e" [] OTHER -> c

\* str.lower
lower(s) == [i \in 1..Len(s) |-> lower_char(s[i])]

\* str.strip: leading and trailing whitespace removed
RECURSIVE strip(_)
strip(s) ==
    IF s = <<>> THEN s
    ELSE IF s[1] = " " THEN strip(Tail(s))
    ELSE IF s[Len(s)] = " " THEN strip(SubSeq(s, 1, Len(s) - 1))
    ELSE s

\* a[i..i+k-1] = b[j..j+k-1]
IsMatch(a, b, i, j, k) ==
    /\ i + k - 1 <= Len(a)
    /\ j + k - 1 <= Len(b)
    /\ \A d \in 0..(k - 1) : a[i + d] = b[j + d]

\* SequenceMatcher.find_longest_match over the whole of a and b: the longest
\* matching block, the one starting earliest in a, then earliest in b
find_longest_match(a, b) ==
    LET sizes == {k \in 0..Len(a) :
                    \E i \in 1..Len(a), j \in 1..Len(b) : IsMatch(a, b, i, j, k)}
        size == CHOOSE k \in sizes \cup {0} : \A m \in sizes : m <= k
        starts == {i \in 1..Len(a) : \E j \in 1..Len(b) : IsMatch(a, b, i, j, size)}
        besti == CHOOSE i \in starts : \A m \in starts : i <= m
        bstarts == {j \in 1..Len(b) : IsMatch(a, b, besti, j, size)}
        bestj == CHOOSE j \in bstarts : \A m \in bstarts : j <= m
    IN  IF size = 0 THEN [a |-> 1, b |-> 1, size |-> 0]
        ELSE [a |-> besti, b |-> bestj, size |-> size]

\* the characters in SequenceMatcher.get_matching_blocks: the longest block,
\* then the same to its left and to its right
RECURSIVE matches(_, _)
matches(a, b) ==
    IF a = <<>> \/ b = <<>> THEN 0
    ELSE LET m == find_longest_match(a, b)
         IN  IF m.size = 0 THEN 0
             ELSE m.size
                  + matches(SubSeq(a, 1, m.a - 1), SubSeq(b, 1, m.b - 1))
                  + matches(SubSeq(a, m.a + m.size, Len(a)),
                            SubSeq(b, m.b + m.size, Len(b)))

\* the similarity test with >= for >
too_similar_AtLeast(normalized, existing) ==
    10 * 2 * matches(normalized, existing) >= 8 * (Len(normalized) + Len(existing))

\* SequenceMatcher(None, normalized, existing).ratio() > 0.8,
\* ratio = 2.0 * matches / (len(a) + len(b))
too_similar(normalized, existing) ==
    10 * 2 * matches(normalized, existing) > 8 * (Len(normalized) + Len(existing))

MAX_PHRASES == 50

\* the slice list[:n]
last_Head(list, n) ==
    IF Len(list) <= n THEN list ELSE SubSeq(list, 1, n)

\* the slice list[-n:]
last(list, n) ==
    IF Len(list) <= n THEN list ELSE SubSeq(list, Len(list) - n + 1, Len(list))

\* ConversationMemory.add_phrase: [memory, result]
add_phrase(memory, phrase, now) ==
    LET normalized == strip(lower(phrase))
    IN  IF normalized = <<>>
        THEN [memory |-> memory, result |-> FALSE]
        ELSE IF \E i \in 1..Len(memory.used_phrases) :
                    too_similar(normalized, memory.used_phrases[i])
        THEN [memory |-> memory, result |-> FALSE]
        ELSE [memory |-> [memory EXCEPT
                            !.used_phrases = last(Append(@, normalized), MAX_PHRASES),
                            !.last_active = now],
              result |-> TRUE]

\* ------------------------------------------------- messages (add_message)
MAX_MESSAGES == 100

\* the dict add_message appends; the key phase is present for a phase given
Message(role, content, timestamp, phase) ==
    IF phase = None
    THEN [role |-> role, content |-> content, timestamp |-> timestamp]
    ELSE [role |-> role, content |-> content, timestamp |-> timestamp,
          phase |-> phase]

\* add_message that keeps messages[:100] in place of messages[-100:]
add_message_KeepFirst(memory, role, content, timestamp, phase, now) ==
    LET msg == Message(role, content,
                       IF timestamp = None THEN now ELSE timestamp, phase)
        m1 == [memory EXCEPT !.messages =
                                 SubSeq(Append(@, msg), 1,
                                        IF Len(@) + 1 < MAX_MESSAGES
                                        THEN Len(@) + 1 ELSE MAX_MESSAGES),
                             !.last_active = now]
    IN  IF role = "fan"
        THEN [m1 EXCEPT !.state.conversation_count = @ + 1]
        ELSE m1

\* ConversationMemory.add_message at time now
add_message(memory, role, content, timestamp, phase, now) ==
    LET msg == Message(role, content,
                       IF timestamp = None THEN now ELSE timestamp, phase)
        m1 == [memory EXCEPT !.messages = last(Append(@, msg), MAX_MESSAGES),
                             !.last_active = now]
    IN  IF role = "fan"
        THEN [m1 EXCEPT !.state.conversation_count = @ + 1]
        ELSE m1

mark_of_mentioned(memory) == [memory EXCEPT !.state.of_mentioned = TRUE]

update_rapport(memory) ==
    LET count == memory.state.conversation_count
        new_rapport == IF 1 + (count \div 3) < 5 THEN 1 + (count \div 3) ELSE 5
    IN  [memory EXCEPT !.state.rapport_level = new_rapport]

\* --------------------------------------------------- profile (update_profile)
MAX_TOPICS == 10

\* ConversationMemory._extract_topic: topic_map.get(key, key)
extract_topic(key) ==
    CASE key \in {"name", "age"} -> "personal"
      [] key = "location" -> "location"
      [] key = "job" -> "work"
      [] key = "interests" -> "hobbies"
      [] key = "relationship_status" -> "relationship"
      [] OTHER -> key

\* ConversationMemory.update_profile
update_profile(memory, key, value, now) ==
    IF value = None THEN memory
    ELSE LET topic == extract_topic(key)
             m1 == [memory EXCEPT !.fan_profile = Put(@, key, value),
                                  !.last_active = now]
         IN  IF topic # "" /\ ~(\E i \in 1..Len(m1.topics_covered) :
                                    m1.topics_covered[i] = topic)
             THEN [m1 EXCEPT !.topics_covered = last(Append(@, topic), MAX_TOPICS)]
             ELSE m1

\* ------------------------------------------------------------ file contents
\* the text of a file: what json.loads makes of it, and the value it holds
Text(type, data) == [type |-> type, data |-> data]

\* json.dumps of a dict
dumps(data) == Text("object", data)

\* a file just opened for writing
EmptyText == Text("empty", << >>)

\* a file that holds only the first part of the text
Truncated(text) == Text("truncated", text.data)

\* no file at the path
Absent == Text("absent", << >>)

\* texts on which read_text raises UnicodeDecodeError
UndecodableTypes == {"invalid_utf8"}

\* texts on which json.loads raises JSONDecodeError
UnparseableTypes == {"empty", "truncated", "garbage"}

\* texts that json.loads parses to a value that is not a dict
NonDictTypes == {"array", "string", "null", "number"}

\* ------------------------------------------------------------------- paths
file_path(fan_id) == [name |-> fan_id, suffix |-> ".json"]

index_path == [name |-> "index", suffix |-> ".json"]

\* Path.with_suffix that leaves the path as it is
with_suffix_Same(path, suffix) == path

\* Path.with_suffix
with_suffix(path, suffix) == [path EXCEPT !.suffix = suffix]

exists(files, path) == path \in DOMAIN files

\* the text at the path, Absent when there is no file
Read(files, path) == IF exists(files, path) THEN files[path] ELSE Absent

\* Path.unlink / the source side of Path.replace
Remove(files, path) == [q \in DOMAIN files \ {path} |-> files[q]]

\* Path.replace(target): an atomic rename over the target
replace(files, path, target) ==
    IF path = target THEN files
    ELSE Put(Remove(files, path), target, files[path])

\* ------------------------------------------------------------ MemoryManager
\* MemoryManager.__init__ on a new directory: the index file is created
MemoryManager == (index_path :> dumps(<< >>))

\* a returned value, a returned None or a raised exception
Returned(memory) == [tag |-> "memory", memory |-> memory, error |-> "none"]

ReturnedNone == [tag |-> "None", memory |-> ConversationMemory("", 0), error |-> "none"]

Raised(error) == [tag |-> "raise", memory |-> ConversationMemory("", 0), error |-> error]

\* MemoryManager._load_index: [error, index]
load_index(files) ==
    LET text == Read(files, index_path)
    IN  IF text.type = "absent" \/ text.type \in UnparseableTypes
        THEN [error |-> "none", swallowed |-> TRUE, index |-> << >>]
        ELSE IF text.type \in UndecodableTypes
        THEN [error |-> "UnicodeDecodeError", swallowed |-> FALSE, index |-> << >>]
        ELSE [error |-> "none", swallowed |-> FALSE, index |-> text.data]

\* the index entry save_memory writes for a memory
index_entry(memory) ==
    [created_at |-> memory.created_at, last_active |-> memory.last_active]

\* MemoryManager.get_memory
get_memory(files, fan_id, now) ==
    LET text == Read(files, file_path(fan_id))
    IN  IF text.type = "absent" THEN ReturnedNone
        ELSE IF text.type \in UndecodableTypes THEN Raised("UnicodeDecodeError")
        ELSE IF text.type \in UnparseableTypes THEN ReturnedNone
        ELSE IF text.type \in NonDictTypes THEN Raised("TypeError")
        ELSE IF "fan_id" \notin DOMAIN text.data THEN ReturnedNone
        ELSE Returned(from_dict(text.data, now))

\* MemoryManager.get_or_create_memory
get_or_create_memory(files, fan_id, now) ==
    LET r == get_memory(files, fan_id, now)
    IN  IF r.tag = "None" THEN Returned(ConversationMemory(fan_id, now)) ELSE r

\* MemoryManager.save_memory run to its end without interruption: [error, fs]
save_memory(files, memory) ==
    LET path == file_path(memory.fan_id)
        tmp_path == with_suffix(path, ".tmp")
        f1 == Put(files, tmp_path, dumps(to_dict(memory)))
        f2 == replace(f1, tmp_path, path)
        loaded == load_index(f2)
        index == Put(loaded.index, memory.fan_id, index_entry(memory))
        index_tmp == with_suffix(index_path, ".tmp")
        f3 == Put(f2, index_tmp, dumps(index))
    IN  IF loaded.error # "none"
        THEN [error |-> loaded.error, fs |-> f2]
        ELSE [error |-> "none", fs |-> replace(f3, index_tmp, index_path)]


\* del dict[key]
Del(dict, key) == [k \in DOMAIN dict \ {key} |-> dict[k]]

\* MemoryManager._save_index
save_index(files, index) ==
    LET index_tmp == with_suffix(index_path, ".tmp")
    IN  replace(Put(files, index_tmp, dumps(index)), index_tmp, index_path)

\* MemoryManager.delete_memory: [error, fs, result]
delete_memory(files, fan_id) ==
    LET path == file_path(fan_id)
        f1 == Remove(files, path)
        loaded == load_index(f1)
    IN  IF ~exists(files, path)
        THEN [error |-> "none", fs |-> files, result |-> FALSE]
        ELSE IF loaded.error # "none"
        THEN [error |-> loaded.error, fs |-> f1, result |-> FALSE]
        ELSE IF fan_id \in DOMAIN loaded.index
        THEN [error |-> "none", fs |-> save_index(f1, Del(loaded.index, fan_id)),
              result |-> TRUE]
        ELSE [error |-> "none", fs |-> f1, result |-> TRUE]

\* MemoryManager.list_all_fans: the keys of the index (the code returns them
\* sorted; the order is not modelled), [error, result]
list_all_fans(files) ==
    LET loaded == load_index(files)
    IN  [error |-> loaded.error, result |-> DOMAIN loaded.index]

\* ---------------------------------------------------------------- IGChatbot
\* the characters of the phrases a reply is made of
Chars ==
    ( "check my of" :> <<"c", "h", "e", "c", "k", " ", "m", "y", " ", "o", "f">>
      @@ "haha ok" :> <<"h", "a", "h", "a", " ", "o", "k">>
      @@ "lol" :> <<"l", "o", "l">> )

\* the loop of add_phrases_from_response over the parts of the response
RECURSIVE add_phrases(_, _, _)
add_phrases(memory, parts, now) ==
    IF parts = <<>> THEN memory
    ELSE LET phrase == strip(Chars[Head(parts)])
             m1 == IF Len(phrase) > 3
                   THEN add_phrase(memory, phrase, now).memory
                   ELSE memory
         IN  add_phrases(m1, Tail(parts), now)

\* ConversationMemory.add_phrases_from_response: the response split at its
\* delimiters, at most 5 parts
add_phrases_from_response(memory, response, now) ==
    add_phrases(memory,
                SubSeq(response, 1, IF Len(response) < 5 THEN Len(response) ELSE 5),
                now)

\* "onlyfans" in the text or "of" among its words
of_words == {"check my of"}

\* IGChatbot.start_conversation for fan_id: the new state machine and the
\* memory loaded; the exception of get_or_create_memory leaves the machine
\* constructed but without scenario and the memory as it was
start_conversation(files, memory, fan_id, scenario, now) ==
    LET r == get_or_create_memory(files, fan_id, now)
    IN  IF r.tag = "raise"
        THEN [state |-> ConversationState, memory |-> memory, error |-> r.error]
        ELSE [state |-> initialize_with_scenario(ConversationState, scenario.id,
                                                 scenario.mood, scenario.is_sob_story),
              memory |-> r.memory, error |-> "none"]

\* IGChatbot.respond on a started conversation: the reply of the language
\* model and its images are inputs
respond(s, memory, files, fan_message, raw_response, images, now) ==
    LET phase_name == s.phase
        m1 == add_message(memory, "fan", fan_message, None, phase_name, now)
        s1 == process_fan_message(s, fan_message, now)
    IN  IF s1.phase = "COLD" /\ ~s1.fan_subscribed
        THEN LET saved == save_memory(files, m1)
             IN  [state |-> process_bot_response(s1, <<>>, <<>>),
                  memory |-> m1, fs |-> saved.fs, error |-> saved.error,
                  result |-> <<>>]
        ELSE LET m2 == add_message(m1, "her", raw_response, None, phase_name, now)
                 m3 == add_phrases_from_response(m2, raw_response, now)
                 m4 == update_rapport(m3)
                 m5 == IF Matches(of_words, raw_response)
                       THEN mark_of_mentioned(m4) ELSE m4
                 saved == save_memory(files, m5)
             IN  [state |-> IF saved.error = "none"
                            THEN process_bot_response(s1, raw_response, images)
                            ELSE s1,
                  memory |-> m5, fs |-> saved.fs, error |-> saved.error,
                  result |-> raw_response]

\* ------------------------------------------------------------------ state
VARIABLES
    state,             \* ConversationStateMachine.state
    clock,             \* datetime.now(), a logical clock
    lastCall,          \* the call made by the last step and its argument
    sinceFirstReveal,  \* inbound messages since the first reply with a reveal marker (-1: none yet)
    sinceLastReveal,   \* inbound messages since the latest reply with a reveal marker (-1: none yet)
    conversations,     \* TensionTracker.conversations: conversation_id -> TensionState
    mood_states,       \* IntentPromptBuilder.mood_states: conversation_id -> MoodState
    ret,               \* the value returned by the last call (None when it returns nothing)
    fs,                \* the memories directory: path -> text of the file
    pc,                \* fan_id -> the step its save_memory call executes next
    local,             \* fan_id -> locals of its save_memory call (memory, index)
    outcome,           \* fan_id -> how its latest save_memory call ended
    saves,             \* fan_id -> save_memory calls started for it
    prev,              \* fan_id -> text of its record file when the latest call started
    failed,            \* fan_id -> the step of the latest call that failed ("none": none did)
    injected,          \* a crash, an I/O error or outside damage has happened
    memory,            \* the ConversationMemory of the conversation at hand
    accepted,          \* the phrases add_phrase has accepted, in order
    nextFresh,         \* how many phrases of the stream Fresh have been offered
    appended,          \* the messages add_message has appended, in order
    calls              \* operations performed so far

phaseVars == <<state, clock, sinceFirstReveal, sinceLastReveal>>

tensionVars == <<conversations, mood_states, ret>>

storeVars == <<fs, pc, local, outcome, saves, prev, failed, injected>>

recordVars == <<memory, accepted, nextFresh>>

chatVars == <<appended, calls>>

memoryVars == <<storeVars, recordVars, chatVars>>

vars == <<state, clock, lastCall, sinceFirstReveal, sinceLastReveal,
          conversations, mood_states, ret, storeVars, recordVars, chatVars>>

NoCall == [op |-> "init", arg |-> <<>>]

Init ==
    /\ state = ConversationState
    /\ clock = 0
    /\ lastCall = NoCall
    /\ sinceFirstReveal = -1
    /\ sinceLastReveal = -1
    /\ conversations = << >>
    /\ mood_states = << >>
    /\ ret = None
    /\ fs = MemoryManager
    /\ pc = [f \in FanIds |-> "idle"]
    /\ local = [f \in FanIds |-> [memory |-> ConversationMemory(f, 0), index |-> << >>]]
    /\ outcome = [f \in FanIds |-> "none"]
    /\ saves = [f \in FanIds |-> 0]
    /\ prev = [f \in FanIds |-> Absent]
    /\ failed = [f \in FanIds |-> "none"]
    /\ injected = FALSE
    /\ memory = ConversationMemory("f1", 0)
    /\ accepted = <<>>
    /\ nextFresh = 0
    /\ appended = <<>>
    /\ calls = 0

\* ---------------------------------------------------------------- actions
\* start_conversation: initialize_with_scenario on the machine just constructed
InitializeWithScenario ==
    \E scenario \in Scenarios :
        /\ lastCall = NoCall
        /\ state' = initialize_with_scenario(state, scenario.id, scenario.mood,
                                             scenario.is_sob_story)
        /\ clock' = clock + 1
        /\ lastCall' = [op |-> "initialize_with_scenario", arg |-> <<>>]
        /\ UNCHANGED <<sinceFirstReveal, sinceLastReveal>>
        /\ UNCHANGED <<tensionVars, memoryVars>>

FanMessage ==
    \E message \in FanMessages :
        /\ state.fan_message_count < MaxFanMessages
        /\ state' = process_fan_message(state, message, clock + 1)
        /\ clock' = clock + 1
        /\ lastCall' = [op |-> "process_fan_message", arg |-> message]
        /\ sinceFirstReveal' = IF sinceFirstReveal >= 0 THEN sinceFirstReveal + 1 ELSE -1
        /\ sinceLastReveal' = IF sinceLastReveal >= 0 THEN sinceLastReveal + 1 ELSE -1
        /\ UNCHANGED <<tensionVars, memoryVars>>

BotResponse ==
    \E response \in BotResponses, images \in ImageLists :
        /\ state.her_message_count < MaxBotMessages
        /\ Len(state.images_sent) + Len(images) <= MaxImages
        /\ state' = process_bot_response(state, response, images)
        /\ clock' = clock + 1
        /\ lastCall' = [op |-> "process_bot_response", arg |-> response]
        /\ sinceFirstReveal' = IF detect_of_mention(response) /\ sinceFirstReveal < 0
                               THEN 0 ELSE sinceFirstReveal
        /\ sinceLastReveal' = IF detect_of_mention(response) THEN 0 ELSE sinceLastReveal
        /\ UNCHANGED <<tensionVars, memoryVars>>

NextPhase == InitializeWithScenario \/ FanMessage \/ BotResponse

SpecPhase == Init /\ [][NextPhase]_vars

\* ------------------------------------- actions, tracker and prompt builder
MaxPrompts == 3
MaxEscalations == 3

ConversationIds == {"c1"}

\* inbound messages given to build_prompt
PromptMessages ==
    { <<"hey">>, <<"send me a pic">>, <<"not paying for that">>,
      <<"i just subscribed">> }

\* intent names given to record_escalation by a direct caller
EscalationNames == {"PIC_REQUEST", "GENERIC"}

\* percent buckets of random.random() for the draw of the TensionState t:
\* the last one that reveals and the first one that does not
Rolls(t) ==
    { get_reveal_probability(t.escalation_count + 1) - 1,
      get_reveal_probability(t.escalation_count + 1) }

\* (memory_context given, percent bucket of the hook draw)
PromptOptions == { <<TRUE, 0>> }

Call(op, cid, arg) == [op |-> op, cid |-> cid, arg |-> arg]

\* a tracker method that returns nothing
TrackerCall(op, cid, t) ==
    /\ conversations' = Put(conversations, cid, t)
    /\ lastCall' = Call(op, cid, <<>>)
    /\ ret' = None
    /\ UNCHANGED mood_states
    /\ UNCHANGED <<phaseVars, memoryVars>>

BuildPrompt ==
    \E cid \in ConversationIds, message \in PromptMessages,
       option \in PromptOptions :
      \E roll \in Rolls(get_state(conversations, cid)) :
        /\ get_state(conversations, cid).message_count < MaxPrompts
        /\ get_state(conversations, cid).escalation_count < MaxEscalations
        /\ \E r \in {build_prompt(conversations, mood_states, message, cid,
                                 option[1], roll, option[2])} :
               /\ conversations' = r.conversations
               /\ mood_states' = r.mood_states
               /\ ret' = [prompt |-> r.prompt, intent |-> r.intent,
                          tension_level |-> r.tension_level]
        /\ lastCall' = Call("build_prompt", cid, message)
        /\ UNCHANGED <<phaseVars, memoryVars>>

RecordEscalation ==
    \E cid \in ConversationIds, intent_name \in EscalationNames :
      \E roll \in Rolls(get_state(conversations, cid)) :
        /\ get_state(conversations, cid).escalation_count < MaxEscalations
        /\ \E r \in {record_escalation(get_state(conversations, cid), intent_name, roll)} :
               /\ conversations' = Put(conversations, cid, r.state)
               /\ ret' = r.level
        /\ lastCall' = Call("record_escalation", cid, <<intent_name>>)
        /\ UNCHANGED mood_states
        /\ UNCHANGED <<phaseVars, memoryVars>>

RecordOfPitch ==
    \E cid \in ConversationIds :
        TrackerCall("record_of_pitch", cid,
                    record_of_pitch(get_state(conversations, cid)))

RecordMessageAfterPitch ==
    \E cid \in ConversationIds :
        TrackerCall("record_message_after_pitch", cid,
                    record_message_after_pitch(get_state(conversations, cid)))

RecordInterest ==
    \E cid \in ConversationIds :
        TrackerCall("record_interest", cid,
                    record_interest(get_state(conversations, cid)))

RecordResistance ==
    \E cid \in ConversationIds :
        TrackerCall("record_resistance", cid,
                    record_resistance(get_state(conversations, cid)))

RecordConversion ==
    \E cid \in ConversationIds :
        TrackerCall("record_conversion", cid,
                    record_conversion(get_state(conversations, cid)))

\* IntentPromptBuilder.record_subscription
RecordSubscription ==
    \E cid \in ConversationIds :
        TrackerCall("record_subscription", cid,
                    record_conversion(get_state(conversations, cid)))

RecordObjection ==
    \E cid \in ConversationIds :
        TrackerCall("record_objection", cid,
                    record_objection(get_state(conversations, cid)))

NextTension ==
    \/ BuildPrompt
    \/ RecordEscalation
    \/ RecordOfPitch
    \/ RecordMessageAfterPitch
    \/ RecordInterest
    \/ RecordResistance
    \/ RecordConversion
    \/ RecordSubscription
    \/ RecordObjection

SpecTension == Init /\ [][NextTension]_vars

\* ------------------------------------------------ actions, MemoryManager
\* save_memory calls started over all identities
MaxSaves == 3

RECURSIVE Sum(_, _)
Sum(count, keys) ==
    IF keys = {} THEN 0
    ELSE LET k == CHOOSE x \in keys : TRUE
         IN  count[k] + Sum(count, keys \ {k})

\* the steps of a save_memory call, in program order
SaveSteps ==
    << "tmp_open", "tmp_write", "tmp_close", "replace", "load_index",
       "index_open", "index_write", "index_replace" >>

\* a step of a call that has not returned a value
StoreCall(op, fan_id) ==
    /\ lastCall' = Call(op, fan_id, <<>>)
    /\ ret' = None
    /\ UNCHANGED <<phaseVars, conversations, mood_states, recordVars, chatVars>>

\* the step at pc[fan_id] is done; the call goes on to step next
Goto(fan_id, next) ==
    /\ pc' = [pc EXCEPT ![fan_id] = next]
    /\ UNCHANGED <<saves, prev, injected>>

tmp_path(fan_id) == with_suffix(file_path(fan_id), ".tmp")

index_tmp_path == with_suffix(index_path, ".tmp")

\* save_memory(memory) is called for the identity; the memory was touched
BeginSave ==
    \E fan_id \in FanIds :
        /\ pc[fan_id] = "idle"
        /\ Sum(saves, FanIds) < MaxSaves
        /\ pc' = [pc EXCEPT ![fan_id] = "tmp_open"]
        /\ saves' = [saves EXCEPT ![fan_id] = @ + 1]
        /\ local' = [local EXCEPT ![fan_id].memory.last_active = saves[fan_id] + 1]
        /\ prev' = [prev EXCEPT ![fan_id] = Read(fs, file_path(fan_id))]
        /\ outcome' = [outcome EXCEPT ![fan_id] = "running"]
        /\ failed' = [failed EXCEPT ![fan_id] = "none"]
        /\ UNCHANGED <<fs, injected>>
        /\ StoreCall("save_memory", fan_id)

\* tmp_path.write_text: open(tmp_path, "w") creates or truncates the file
TmpOpen ==
    \E fan_id \in FanIds :
        /\ pc[fan_id] = "tmp_open"
        /\ fs' = Put(fs, tmp_path(fan_id), EmptyText)
        /\ Goto(fan_id, "tmp_write")
        /\ UNCHANGED <<local, outcome, failed>>
        /\ StoreCall("save_memory", fan_id)

\* tmp_path.write_text: the first part of the text reaches the file
TmpWrite ==
    \E fan_id \in FanIds :
        /\ pc[fan_id] = "tmp_write"
        /\ fs' = Put(fs, tmp_path(fan_id),
                     Truncated(dumps(to_dict(local[fan_id].memory))))
        /\ Goto(fan_id, "tmp_close")
        /\ UNCHANGED <<local, outcome, failed>>
        /\ StoreCall("save_memory", fan_id)

\* tmp_path.write_text: the rest of the text is written, the file is closed
TmpClose ==
    \E fan_id \in FanIds :
        /\ pc[fan_id] = "tmp_close"
        /\ fs' = Put(fs, tmp_path(fan_id), dumps(to_dict(local[fan_id].memory)))
        /\ Goto(fan_id, "replace")
        /\ UNCHANGED <<local, outcome, failed>>
        /\ StoreCall("save_memory", fan_id)

\* tmp_path.replace(file_path)
ReplaceRecord ==
    \E fan_id \in FanIds :
        /\ pc[fan_id] = "replace"
        /\ fs' = replace(fs, tmp_path(fan_id), file_path(fan_id))
        /\ Goto(fan_id, "load_index")
        /\ UNCHANGED <<local, outcome, failed>>
        /\ StoreCall("save_memory", fan_id)

\* index = self._load_index(); index[memory.fan_id] = {...}
LoadIndex ==
    \E fan_id \in FanIds :
      \E loaded \in {load_index(fs)} :
        /\ pc[fan_id] = "load_index"
        /\ loaded.error = "none"
        /\ local' = [local EXCEPT ![fan_id].index =
                        Put(loaded.index, fan_id, index_entry(local[fan_id].memory))]
        /\ failed' = [failed EXCEPT ![fan_id] =
                        IF loaded.swallowed THEN "load_index" ELSE @]
        /\ Goto(fan_id, "index_open")
        /\ UNCHANGED <<fs, outcome>>
        /\ StoreCall("save_memory", fan_id)

\* _save_index: open(index.tmp, "w") creates or truncates the file
IndexOpen ==
    \E fan_id \in FanIds :
        /\ pc[fan_id] = "index_open"
        /\ fs' = Put(fs, index_tmp_path, EmptyText)
        /\ Goto(fan_id, "index_write")
        /\ UNCHANGED <<local, outcome, failed>>
        /\ StoreCall("save_memory", fan_id)

\* _save_index: the text is written to the open file and the file is closed;
\* when another call has renamed the file meanwhile, the open file is the index
IndexWrite ==
    \E fan_id \in FanIds :
        /\ pc[fan_id] = "index_write"
        /\ fs' = Put(fs,
                     IF exists(fs, index_tmp_path) THEN index_tmp_path ELSE index_path,
                     dumps(local[fan_id].index))
        /\ Goto(fan_id, "index_replace")
        /\ UNCHANGED <<local, outcome, failed>>
        /\ StoreCall("save_memory", fan_id)

\* _save_index: tmp_path.replace(self.index_path); FileNotFoundError when
\* index.tmp is gone; then save_memory returns
IndexReplace ==
    \E fan_id \in FanIds :
        /\ pc[fan_id] = "index_replace"
        /\ IF exists(fs, index_tmp_path)
           THEN /\ fs' = replace(fs, index_tmp_path, index_path)
                /\ outcome' = [outcome EXCEPT ![fan_id] = "returned"]
                /\ UNCHANGED failed
           ELSE /\ outcome' = [outcome EXCEPT ![fan_id] = "raised"]
                /\ failed' = [failed EXCEPT ![fan_id] = "index_replace"]
                /\ UNCHANGED fs
        /\ Goto(fan_id, "idle")
        /\ UNCHANGED local
        /\ StoreCall("save_memory", fan_id)

\* the step the call is at raises OSError (disk full, permission, I/O error):
\* the exception leaves save_memory
Fail ==
    \E fan_id \in FanIds :
        /\ pc[fan_id] # "idle"
        /\ pc' = [pc EXCEPT ![fan_id] = "idle"]
        /\ outcome' = [outcome EXCEPT ![fan_id] = "raised"]
        /\ failed' = [failed EXCEPT ![fan_id] = pc[fan_id]]
        /\ injected' = TRUE
        /\ UNCHANGED <<fs, local, saves, prev>>
        /\ StoreCall("save_memory", fan_id)

\* the process dies between two steps of the call
Crash ==
    \E fan_id \in FanIds :
        /\ pc[fan_id] # "idle"
        /\ pc' = [pc EXCEPT ![fan_id] = "idle"]
        /\ outcome' = [outcome EXCEPT ![fan_id] = "crashed"]
        /\ injected' = TRUE
        /\ UNCHANGED <<fs, local, saves, prev, failed>>
        /\ StoreCall("crash", fan_id)

\* the index file is damaged from outside the program
DamageIndex ==
    /\ Read(fs, index_path).type = "object"
    /\ fs' = Put(fs, index_path, Text("garbage", << >>))
    /\ injected' = TRUE
    /\ UNCHANGED <<pc, local, outcome, saves, prev, failed>>
    /\ StoreCall("damage", "index")

\* a reader calls get_memory
GetMemory ==
    \E fan_id \in FanIds :
        /\ ret' = get_memory(fs, fan_id, clock)
        /\ lastCall' = Call("get_memory", fan_id, <<>>)
        /\ UNCHANGED storeVars
        /\ UNCHANGED <<phaseVars, conversations, mood_states, recordVars, chatVars>>

NextStore ==
    \/ BeginSave
    \/ TmpOpen
    \/ TmpWrite
    \/ TmpClose
    \/ ReplaceRecord
    \/ LoadIndex
    \/ IndexOpen
    \/ IndexWrite
    \/ IndexReplace
    \/ Fail
    \/ Crash
    \/ DamageIndex
    \/ GetMemory

SpecStore == Init /\ [][NextStore]_vars

\* ------------------------------- actions, loading records damaged on disk
\* texts a damaged record file can hold: cut short, not JSON, JSON of the
\* wrong shape, JSON with fields missing, bytes that are not UTF-8
DamagedTexts ==
    { EmptyText, Text("garbage", << >>), Text("invalid_utf8", << >>),
      Text("array", << >>), Text("string", << >>), Text("null", << >>),
      Text("number", << >>),
      dumps(("created_at" :> 0)), dumps(("fan_id" :> "f1")) }

\* a whole save_memory call, with no other call running
SaveMemory ==
    \E fan_id \in FanIds :
      \E touched \in {[local[fan_id].memory EXCEPT !.last_active = saves[fan_id] + 1]} :
        \E r \in {save_memory(fs, touched)} :
          /\ \A f \in FanIds : pc[f] = "idle"
          /\ Sum(saves, FanIds) < MaxSaves
          /\ fs' = r.fs
          /\ saves' = [saves EXCEPT ![fan_id] = @ + 1]
          /\ local' = [local EXCEPT ![fan_id].memory = touched]
          /\ prev' = [prev EXCEPT ![fan_id] = Read(fs, file_path(fan_id))]
          /\ outcome' = [outcome EXCEPT ![fan_id] =
                            IF r.error = "none" THEN "returned" ELSE "raised"]
          /\ failed' = [failed EXCEPT ![fan_id] = "none"]
          /\ UNCHANGED <<pc, injected>>
          /\ StoreCall("save_memory", fan_id)

\* the record file of an identity is damaged from outside the program:
\* cut short, or overwritten
DamageRecord ==
    \E fan_id \in FanIds :
      \E text \in DamagedTexts \cup {Truncated(Read(fs, file_path(fan_id)))} :
        /\ exists(fs, file_path(fan_id))
        /\ fs' = Put(fs, file_path(fan_id), text)
        /\ injected' = TRUE
        /\ UNCHANGED <<pc, local, outcome, saves, prev, failed>>
        /\ StoreCall("damage", fan_id)

GetOrCreateMemory ==
    \E fan_id \in FanIds :
        /\ ret' = get_or_create_memory(fs, fan_id, clock)
        /\ lastCall' = Call("get_or_create_memory", fan_id, <<>>)
        /\ UNCHANGED storeVars
        /\ UNCHANGED <<phaseVars, conversations, mood_states, recordVars, chatVars>>

NextRecovery == SaveMemory \/ DamageRecord \/ GetOrCreateMemory

SpecRecovery == Init /\ [][NextRecovery]_vars

\* ------------------------------------------- actions, ConversationMemory
\* phrases accepted in one run
MaxAccepted == 52

Letters == <<"a", "b", "c", "d", "e", "f", "g", "h">>

\* a stream of phrases: two that agree in 4 characters of 5 (similarity
\* exactly 0.8), then two-letter phrases that differ pairwise
Fresh(n) ==
    IF n = 0 THEN <<"a", "b", "c", "d", "e">>
    ELSE IF n = 1 THEN <<"a", "b", "c", "d", "x">>
    ELSE <<Letters[((n - 2) \div Len(Letters)) + 1],
           Letters[((n - 2) % Len(Letters)) + 1]>>

\* other candidates: empty, blank, the first phrase of the stream in capitals
\* between blanks, the first phrase with a letter appended
Probes ==
    { <<>>, <<" ">>, <<" ", "A", "B", "C", "D", "E", " ">>,
      <<"a", "b", "c", "d", "e", "f">> }

AddPhrase ==
    \E phrase \in {Fresh(nextFresh)} \cup Probes :
      \E r \in {add_phrase(memory, phrase, clock)} :
        /\ Len(accepted) < MaxAccepted
        /\ memory' = r.memory
        /\ ret' = r.result
        /\ accepted' = IF r.result THEN Append(accepted, strip(lower(phrase)))
                       ELSE accepted
        /\ nextFresh' = IF phrase = Fresh(nextFresh) THEN nextFresh + 1 ELSE nextFresh
        /\ lastCall' = Call("add_phrase", memory.fan_id, phrase)
        /\ UNCHANGED <<phaseVars, conversations, mood_states, storeVars, chatVars>>

NextPhrases == AddPhrase

SpecPhrases == Init /\ [][NextPhrases]_vars

\* ------------------------------------------ MoodState called on its own
\* (fan_message, intent) of an update call: the empty text, a boring opener,
\* demanding, sweet, playful and question messages and one of more than 50
\* characters, with every pursuit label and a label that is none
MoodInputs ==
    { << <<>>, "GENERIC" >>,
      << <<"hey">>, "GENERIC" >>,
      << <<"hey">>, "PIC_REQUEST" >>,
      << <<"send me a pic">>, "PIC_REQUEST" >>,
      << <<"ur cute">>, "COMPLIMENT" >>,
      << <<"ur beautiful">>, "COMPLIMENT" >>,
      << <<"ur beautiful">>, "SEXUAL" >>,
      << <<"lets meet up">>, "MEETUP_REQUEST" >>,
      << <<"whats your snap">>, "CONTACT_REQUEST" >>,
      << <<"haha ok">>, "GENERIC" >>,
      << <<"wyd?">>, "GENERIC" >>,
      << <<"i just subscribed", "not paying for that", "whats your snap">>, "GENERIC" >> }

\* get_mood(conversation_id).update(fan_message, intent)
MoodUpdate ==
    \E cid \in ConversationIds, input \in MoodInputs :
        /\ mood_states' = Put(mood_states, cid,
                              mood_update(get_mood(mood_states, cid), input[1], input[2]))
        /\ lastCall' = Call("update", cid, input)
        /\ ret' = None
        /\ UNCHANGED conversations
        /\ UNCHANGED <<phaseVars, memoryVars>>

ResetMood ==
    \E cid \in ConversationIds :
        /\ mood_states' = reset_mood(mood_states, cid)
        /\ lastCall' = Call("reset_mood", cid, <<>>)
        /\ ret' = None
        /\ UNCHANGED conversations
        /\ UNCHANGED <<phaseVars, memoryVars>>

NextMood == MoodUpdate \/ ResetMood

SpecMood == Init /\ [][NextMood]_vars

\* ------------------------------------------------ detect_intent on its own
MaxPhrases == 2

\* the messages of at most MaxPhrases vocabulary phrases
IntentMessages ==
    UNION { [1..n -> DOMAIN PhraseLen] : n \in 0..MaxPhrases }

DetectIntent ==
    \E message \in IntentMessages :
        /\ ret' = detect_intent(message)
        /\ lastCall' = [op |-> "detect_intent", arg |-> message]
        /\ UNCHANGED <<conversations, mood_states>>
        /\ UNCHANGED <<phaseVars, memoryVars>>

NextIntent == DetectIntent

SpecIntent == Init /\ [][NextIntent]_vars

\* ------------------------------------------------- add_message on its own
MaxAppends == 102

MaxOutOfTurn == 1

\* a stream of turns: an inbound message and a reply to it, recorded with the phase
MessageStream(n) ==
    IF n % 2 = 0
    THEN [role |-> "fan", content |-> <<"hey">>, phase |-> "opener"]
    ELSE [role |-> "her", content |-> <<"haha ok">>, phase |-> "opener"]

\* a message recorded out of turn and without a phase
OutOfTurn ==
    { [role |-> "fan", content |-> <<>>, phase |-> None] }

OutOfTurnCount(list) ==
    Cardinality({i \in 1..Len(list) : "phase" \notin DOMAIN list[i]})

\* memory.add_message(role, content, phase=phase) at time calls + 1
AddMessage ==
    \E input \in {MessageStream(Len(appended) - OutOfTurnCount(appended))}
                 \cup (IF OutOfTurnCount(appended) < MaxOutOfTurn
                       THEN OutOfTurn ELSE {}) :
        /\ calls < MaxAppends
        /\ memory' = add_message(memory, input.role, input.content, None,
                                 input.phase, calls + 1)
        /\ appended' = Append(appended, Message(input.role, input.content,
                                                calls + 1, input.phase))
        /\ calls' = calls + 1
        /\ lastCall' = Call("add_message", memory.fan_id, input)
        /\ ret' = None
        /\ UNCHANGED <<accepted, nextFresh>>
        /\ UNCHANGED <<phaseVars, conversations, mood_states, storeVars>>

NextMessages == AddMessage

SpecMessages == Init /\ [][NextMessages]_vars

\* --------------------------------------------------------- actions, IGChatbot
MaxChatCalls == 6

ChatFanId == "f1"

ChatFanMessages == { <<"hey">>, <<"i just subscribed">> }

\* replies of the language model
ChatReplies == { <<"check my of">>, <<"haha ok", "lol">> }

ChatImages == { <<>> }

StartConversation ==
    \E scenario \in Scenarios :
      \E r \in {start_conversation(fs, memory, ChatFanId, scenario, clock + 1)} :
        /\ calls < MaxChatCalls
        /\ state' = r.state
        /\ memory' = r.memory
        /\ clock' = clock + 1
        /\ calls' = calls + 1
        /\ lastCall' = Call("start_conversation", ChatFanId, scenario.id)
        /\ ret' = None
        /\ UNCHANGED <<sinceFirstReveal, sinceLastReveal, appended>>
        /\ UNCHANGED <<accepted, nextFresh>>
        /\ UNCHANGED <<conversations, mood_states, storeVars>>

\* respond; a conversation not started yet is started first
Respond ==
    \E fan_message \in ChatFanMessages, raw_response \in ChatReplies,
       images \in ChatImages, scenario \in Scenarios :
      \E started \in {IF state.scenario_id = None
                      THEN start_conversation(fs, memory, ChatFanId, scenario, clock + 1)
                      ELSE [state |-> state, memory |-> memory, error |-> "none"]} :
        \E r \in {respond(started.state, started.memory, fs, fan_message,
                          raw_response, images, clock + 1)} :
          /\ calls < MaxChatCalls
          /\ started.error = "none"
          /\ state' = r.state
          /\ memory' = r.memory
          /\ fs' = r.fs
          /\ ret' = r.result
          /\ clock' = clock + 1
          /\ calls' = calls + 1
          /\ lastCall' = Call("respond", ChatFanId, fan_message)
          /\ UNCHANGED <<sinceFirstReveal, sinceLastReveal, appended>>
          /\ UNCHANGED <<accepted, nextFresh>>
          /\ UNCHANGED <<conversations, mood_states>>
          /\ UNCHANGED <<pc, local, outcome, saves, prev, failed, injected>>

NextChat == StartConversation \/ Respond

SpecChat == Init /\ [][NextChat]_vars

\* ------------------------------- actions, two conversations on one builder
MaxFrameCalls == 4

FrameIds == {"c1", "c2"}

FrameMessages == { <<"send me a pic">>, <<"not paying for that">> }

FrameMoodInputs == { << <<"hey">>, "PIC_REQUEST" >>, << <<"ur beautiful">>, "COMPLIMENT" >> }

\* a call on the builder or its tracker for conversation cid
FrameCall(op, cid, arg, convs, moods, result) ==
    /\ calls < MaxFrameCalls
    /\ conversations' = convs
    /\ mood_states' = moods
    /\ ret' = result
    /\ lastCall' = Call(op, cid, arg)
    /\ calls' = calls + 1
    /\ UNCHANGED appended
    /\ UNCHANGED <<phaseVars, storeVars, recordVars>>

FrameBuildPrompt ==
    \E cid \in FrameIds, message \in FrameMessages, option \in PromptOptions :
      \E roll \in Rolls(get_state(conversations, cid)) :
        \E r \in {build_prompt(conversations, mood_states, message, cid,
                               option[1], roll, option[2])} :
            FrameCall("build_prompt", cid, message, r.conversations, r.mood_states,
                      [prompt |-> r.prompt, intent |-> r.intent,
                       tension_level |-> r.tension_level])

FrameRecordEscalation ==
    \E cid \in FrameIds :
      \E roll \in Rolls(get_state(conversations, cid)) :
        \E r \in {record_escalation(get_state(conversations, cid), "PIC_REQUEST", roll)} :
            FrameCall("record_escalation", cid, <<"PIC_REQUEST">>,
                      Put(conversations, cid, r.state), mood_states, r.level)

FrameRecordObjection ==
    \E cid \in FrameIds :
        FrameCall("record_objection", cid, <<>>,
                  Put(conversations, cid, record_objection(get_state(conversations, cid))),
                  mood_states, None)

FrameRecordConversion ==
    \E cid \in FrameIds :
        FrameCall("record_conversion", cid, <<>>,
                  Put(conversations, cid, record_conversion(get_state(conversations, cid))),
                  mood_states, None)

FrameMoodUpdate ==
    \E cid \in FrameIds, input \in FrameMoodInputs :
        FrameCall("update", cid, input, conversations,
                  Put(mood_states, cid,
                      mood_update(get_mood(mood_states, cid), input[1], input[2])),
                  None)

FrameResetMood ==
    \E cid \in FrameIds :
        FrameCall("reset_mood", cid, <<>>, conversations,
                  reset_mood(mood_states, cid), None)

NextFrame ==
    \/ FrameBuildPrompt
    \/ FrameRecordEscalation
    \/ FrameRecordObjection
    \/ FrameRecordConversion
    \/ FrameMoodUpdate
    \/ FrameResetMood

SpecFrame == Init /\ [][NextFrame]_vars

\* ------------------------------------- the proactive pitch of one conversation
MaxPitchCalls == 6

PitchMessages == { <<"hey">>, <<"send me a pic">>, <<"not paying for that">> }

\* a call on the builder or its tracker for the conversation c1
PitchCall(op, arg, convs, moods, result) ==
    /\ calls < MaxPitchCalls
    /\ conversations' = convs
    /\ mood_states' = moods
    /\ ret' = result
    /\ lastCall' = Call(op, "c1", arg)
    /\ calls' = calls + 1
    /\ UNCHANGED appended
    /\ UNCHANGED <<phaseVars, storeVars, recordVars>>

PitchBuildPrompt ==
    \E message \in PitchMessages, option \in PromptOptions :
      \E roll \in Rolls(get_state(conversations, "c1")) :
        \E r \in {build_prompt(conversations, mood_states, message, "c1",
                               option[1], roll, option[2])} :
            PitchCall("build_prompt", message, r.conversations, r.mood_states,
                      [prompt |-> r.prompt, intent |-> r.intent,
                       tension_level |-> r.tension_level])

PitchRecordEscalation ==
    \E roll \in Rolls(get_state(conversations, "c1")) :
      \E r \in {record_escalation(get_state(conversations, "c1"), "PIC_REQUEST", roll)} :
          PitchCall("record_escalation", <<"PIC_REQUEST">>,
                    Put(conversations, "c1", r.state), mood_states, r.level)

PitchRecordOfPitch ==
    PitchCall("record_of_pitch", <<>>,
              Put(conversations, "c1", record_of_pitch(get_state(conversations, "c1"))),
              mood_states, None)

PitchRecordObjection ==
    PitchCall("record_objection", <<>>,
              Put(conversations, "c1", record_objection(get_state(conversations, "c1"))),
              mood_states, None)

NextPitch ==
    \/ PitchBuildPrompt
    \/ PitchRecordEscalation
    \/ PitchRecordOfPitch
    \/ PitchRecordObjection

SpecPitch == Init /\ [][NextPitch]_vars

\* --------------------------- MemoryManager, sequential calls, nothing fails
MaxManagerCalls == 4

\* identities; the record file of the identity "index" is index.json
ManagerIds == {"f1", "index"}

ManagerMessages == { << "fan", <<"hey">>, None >>, << "her", <<"lol">>, "opener" >> }

ManagerProfile == { << "name", "Jake" >>, << "interests", <<"gym">> >>, << "job", None >> }

\* identities whose record get_memory finds on disk
DurableIds(files) == { f \in ManagerIds : get_memory(files, f, 0).tag = "memory" }

\* a call on the record in hand or on the manager
ManagerCall(op, cid, arg, files, m, result) ==
    /\ calls < MaxManagerCalls
    /\ fs' = files
    /\ memory' = m
    /\ ret' = result
    /\ lastCall' = Call(op, cid, arg)
    /\ calls' = calls + 1
    /\ UNCHANGED <<appended, accepted, nextFresh>>
    /\ UNCHANGED <<pc, local, outcome, saves, prev, failed, injected>>
    /\ UNCHANGED <<phaseVars, conversations, mood_states>>

ManagerGetOrCreate ==
    \E fan_id \in ManagerIds :
      \E r \in {get_or_create_memory(fs, fan_id, calls + 1)} :
        /\ r.tag = "memory"
        /\ ManagerCall("get_or_create_memory", fan_id, <<>>, fs, r.memory, None)

ManagerAddMessage ==
    \E m \in ManagerMessages :
        ManagerCall("add_message", memory.fan_id, m, fs,
                    add_message(memory, m[1], m[2], None, m[3], calls + 1), None)

ManagerAddPhrase ==
    \E r \in {add_phrase(memory, <<"l", "o", "l">>, calls + 1)} :
        ManagerCall("add_phrase", memory.fan_id, <<>>, fs, r.memory, r.result)

ManagerUpdateProfile ==
    \E p \in ManagerProfile :
        ManagerCall("update_profile", memory.fan_id, p, fs,
                    update_profile(memory, p[1], p[2], calls + 1), None)

ManagerSave ==
    \E r \in {save_memory(fs, memory)} :
        /\ r.error = "none"
        /\ ManagerCall("save_memory", memory.fan_id, <<>>, r.fs, memory, None)

ManagerDelete ==
    \E fan_id \in ManagerIds :
      \E r \in {delete_memory(fs, fan_id)} :
        /\ r.error = "none"
        /\ ManagerCall("delete_memory", fan_id, DurableIds(fs), r.fs, memory, r.result)

ManagerListAllFans ==
    \E r \in {list_all_fans(fs)} :
        /\ r.error = "none"
        /\ ManagerCall("list_all_fans", "", <<>>, fs, memory, r.result)

NextManager ==
    \/ ManagerGetOrCreate
    \/ ManagerAddMessage
    \/ ManagerAddPhrase
    \/ ManagerUpdateProfile
    \/ ManagerSave
    \/ ManagerDelete
    \/ ManagerListAllFans

SpecManager == Init /\ [][NextManager]_vars

\* ------------------------------------ the reveal draw of record_escalation
MaxMisses == 6

\* the percent buckets of random.random(), each as likely as the others
Percent == 0..99

PursuitNames == {"PIC_REQUEST"}

\* record_escalation for c1 with the draw roll; the returned level is kept
\* with the call
Draw(intent_name, roll) ==
    \E r \in {record_escalation(get_state(conversations, "c1"), intent_name, roll)} :
        /\ conversations' = Put(conversations, "c1", r.state)
        /\ lastCall' = [op |-> "record_escalation", cid |-> "c1",
                        arg |-> <<intent_name, roll>>, level |-> r.level]
        /\ UNCHANGED <<mood_states, ret>>
        /\ UNCHANGED <<phaseVars, memoryVars>>

\* an escalation whose draw fails
DrawMiss ==
    \E intent_name \in PursuitNames, roll \in Percent :
        /\ ~get_state(conversations, "c1").of_revealed
        /\ get_state(conversations, "c1").escalation_count < MaxMisses
        /\ ~should_reveal_of(get_state(conversations, "c1").escalation_count + 1, roll)
        /\ Draw(intent_name, roll)

\* an escalation whose draw succeeds
DrawHit ==
    \E intent_name \in PursuitNames, roll \in Percent :
        /\ ~get_state(conversations, "c1").of_revealed
        /\ should_reveal_of(get_state(conversations, "c1").escalation_count + 1, roll)
        /\ Draw(intent_name, roll)

\* an escalation of a conversation already revealed: the draw is not made
DrawAfterReveal ==
    \E intent_name \in PursuitNames :
        /\ get_state(conversations, "c1").of_revealed
        /\ Draw(intent_name, -1)

NextDraw == DrawMiss \/ DrawHit \/ DrawAfterReveal

SpecDraw == Init /\ [][NextDraw]_vars

\* the draw is fair: a draw that can succeed again and again does succeed
SpecDrawFair == SpecDraw /\ SF_vars(DrawHit)

\* ======================================================== claims, SpecPhase
IsFanStep(call) == call.op = "process_fan_message"

IsRevealReply(call) ==
    call.op = "process_bot_response" /\ detect_of_mention(call.arg)

\* C1: once the phase is COLD it leaves COLD only in a step that has detected
\* a conversion (an inbound message that sets fan_subscribed), and then it
\* goes to POST_PITCH; no other call, a self-authored reply included, takes
\* the phase out of COLD.
C1_ColdLeftOnlyOnConversion ==
    [][ (state.phase = "COLD" /\ state'.phase # "COLD")
        => /\ IsFanStep(lastCall')
           /\ detect_fan_subscribed(lastCall'.arg)
           /\ state'.fan_subscribed
           /\ state'.phase = "POST_PITCH" ]_vars

\* C2: once fan_subscribed is true the phase is never COLD, in the state left
\* by the call that detected the conversion and in every later state.
C2_SubscribedNeverCold ==
    state.fan_subscribed => state.phase # "COLD"

\* a conversation that had gone cold and then converted
C2_Witness ==
    /\ state.fan_subscribed
    /\ state.post_pitch_messages >= COLD_THRESHOLD
    /\ state.phase = "POST_PITCH"
    /\ IsFanStep(lastCall)

\* what C3 demands of the inbound message that is number n after a reveal reply
ColdCountdown(n, s) ==
    /\ (n >= 1 /\ n < COLD_THRESHOLD) => s.phase = "POST_PITCH"
    /\ n = COLD_THRESHOLD => s.phase = "COLD"

\* C3 as stated: after any self-authored reply with a reveal marker, with no
\* conversion detected, the phase is POST_PITCH after each of the next 3
\* inbound messages and COLD exactly on the 4th.
C3_ColdOnFourthAfterAnyReveal ==
    [][ (IsFanStep(lastCall') /\ ~state'.fan_subscribed)
        => ColdCountdown(sinceLastReveal', state') ]_vars

\* C3 amended: after the FIRST self-authored reply with a reveal marker of a
\* conversation, with no conversion detected, the phase is POST_PITCH after
\* each of the next 3 inbound messages and COLD exactly on the 4th.
C3_ColdOnFourthAfterFirstReveal ==
    [][ (IsFanStep(lastCall') /\ ~state'.fan_subscribed)
        => ColdCountdown(sinceFirstReveal', state') ]_vars

\* the 4th inbound message after the first reveal reply has just been processed
C3_Witness ==
    /\ IsFanStep(lastCall)
    /\ sinceFirstReveal = COLD_THRESHOLD
    /\ ~state.fan_subscribed
    /\ state.phase = "COLD"

C10_MessageCountsAddUp ==
    state.fan_message_count + state.her_message_count = state.message_count

\* C11: when the phase is neither COLD nor POST_PITCH, the phase computed on
\* an inbound turn is the result of the fixed priority list over the counters:
\* OF_PITCH, else DEFLECTION, else LOCATION, else SMALL_TALK (location
\* acknowledged), else OPENER (peer message count <= 2), else SMALL_TALK.
PriorityPhase(s) ==
    IF (s.meetup_requests >= 2 \/ s.pic_requests > 0 \/ s.sexual_escalation)
       /\ ~s.of_mentioned                               THEN "OF_PITCH"
    ELSE IF s.meetup_requests = 1 /\ ~s.of_mentioned    THEN "DEFLECTION"
    ELSE IF s.location_detected /\ ~s.location_matched  THEN "LOCATION"
    ELSE IF s.location_matched                          THEN "SMALL_TALK"
    ELSE IF s.fan_message_count <= 2                    THEN "OPENER"
    ELSE "SMALL_TALK"

C11_PhaseFollowsPriorityList ==
    [][ (IsFanStep(lastCall') /\ state.phase \notin {"COLD", "POST_PITCH"})
        => state'.phase = PriorityPhase(state') ]_vars

\* an acknowledged location wins over the OPENER rule of an early message
C11_Witness ==
    /\ IsFanStep(lastCall)
    /\ state.location_matched
    /\ state.fan_message_count <= 2
    /\ state.phase = "SMALL_TALK"

\* C12: with no reveal mention, no explicit-content request and no sexual
\* flag, the inbound message that raises meetup_requests from 0 to 1 puts the
\* phase in DEFLECTION, the one that raises it from 1 to 2 puts it in
\* OF_PITCH, and OF_PITCH is entered from DEFLECTION only.
C12_DeflectionBeforePitch ==
    [][ (IsFanStep(lastCall') /\ ~state'.of_mentioned
         /\ state'.pic_requests = 0 /\ ~state'.sexual_escalation)
        => /\ (state.meetup_requests = 0 /\ state'.meetup_requests = 1)
              => state'.phase = "DEFLECTION"
           /\ (state.meetup_requests = 1 /\ state'.meetup_requests = 2)
              => state'.phase = "OF_PITCH"
           /\ (state'.phase = "OF_PITCH" /\ state.phase # "OF_PITCH")
              => (state.phase = "DEFLECTION" /\ state'.meetup_requests = 2) ]_vars

\* the second meetup request has just been processed on that path
C12_Witness ==
    /\ IsFanStep(lastCall)
    /\ state.meetup_requests = 2
    /\ state.pic_requests = 0
    /\ ~state.sexual_escalation
    /\ ~state.of_mentioned
    /\ state.phase = "OF_PITCH"

\* C13: from every reachable state, running _update_phase twice leaves the
\* same phase as running it once, and the result is one of the seven phases.
C13_UpdatePhaseIdempotent ==
    /\ update_phase(update_phase(state)) = update_phase(state)
    /\ update_phase(state).phase \in Phases

\* a state whose stored phase is stale: the reply acknowledged the location
\* and the recomputation moves LOCATION to SMALL_TALK
C13_Witness ==
    /\ lastCall.op = "process_bot_response"
    /\ state.phase = "LOCATION"
    /\ update_phase(state).phase = "SMALL_TALK"

\* the phase that the counters and flags alone determine (phase not read)
PhaseOfCounters(s) ==
    IF s.of_mentioned
    THEN IF ~s.fan_subscribed /\ s.post_pitch_messages >= COLD_THRESHOLD
         THEN "COLD" ELSE "POST_PITCH"
    ELSE PriorityPhase(s)

NewText(fan_id) == dumps(to_dict(local[fan_id].memory))

\* C15: at every point of a save_memory call, a crash after any step
\* included, the record file of the identity is absent, the complete previous
\* record or the complete new record, and get_memory never returns anything
\* else than what one of those holds.
C15_RecordFileIsOldOrNew ==
    \A fan_id \in FanIds :
        /\ Read(fs, file_path(fan_id)) \in {prev[fan_id], NewText(fan_id)}
        /\ Read(fs, file_path(fan_id)).type \in {"absent", "object"}
        /\ (lastCall.op = "get_memory" /\ lastCall.cid = fan_id)
           => /\ ret.tag \in {"None", "memory"}
              /\ (ret.tag = "None") => (prev[fan_id] = Absent)
              /\ (ret.tag = "memory")
                 => (to_dict(ret.memory) \in {prev[fan_id].data, NewText(fan_id).data})

\* the second save of f1 crashed with half of the temporary file written; a
\* reader then got the complete record of the first save
C15_Witness ==
    /\ outcome["f1"] = "crashed"
    /\ saves["f1"] = 2
    /\ Read(fs, tmp_path("f1")).type = "truncated"
    /\ lastCall.op = "get_memory"
    /\ lastCall.cid = "f1"
    /\ ret.tag = "memory"
    /\ ret.memory.last_active = 1

\* C16: when save_memory calls for two distinct identities run in parallel
\* (no crash, no I/O error, no outside damage), no call raises, and once all
\* have returned every record is durable and every identity is in the index.
C16_ParallelSavesKeepIndex ==
    ~injected
    => /\ \A fan_id \in FanIds : outcome[fan_id] # "raised"
       /\ (\A fan_id \in FanIds : outcome[fan_id] = "returned")
          => \A fan_id \in FanIds :
                /\ Read(fs, file_path(fan_id)) = NewText(fan_id)
                /\ Read(fs, index_path).type = "object"
                /\ fan_id \in DOMAIN Read(fs, index_path).data

\* C18: when a step of save_memory fails (temporary write, rename, index
\* load, index write), the call ends with an error raised to the caller and
\* the record file still holds the previously persisted record.
C18_FailedSaveKeepsPreviousRecord ==
    \A fan_id \in FanIds :
        failed[fan_id] # "none"
        => /\ outcome[fan_id] = "raised"
           /\ Read(fs, file_path(fan_id)) = prev[fan_id]

\* ===================================================== claims, SpecRecovery
\* the text is a record as save_memory writes it
IsRecordText(text) ==
    /\ text.type = "object"
    /\ DOMAIN text.data = DOMAIN to_dict(ConversationMemory("", 0))

\* C17: whatever the record file of an identity holds (cut short, not
\* parseable, parseable but of the wrong shape or with fields missing),
\* get_or_create_memory does not raise, and for a damaged file it returns a
\* fresh, empty record of that identity.
C17_DamagedRecordYieldsFreshMemory ==
    \A fan_id \in FanIds :
        (lastCall.op = "get_or_create_memory" /\ lastCall.cid = fan_id)
        => /\ ret.tag = "memory"
           /\ ~IsRecordText(Read(fs, file_path(fan_id)))
              => ret.memory = ConversationMemory(fan_id, clock)

\* ====================================================== claims, SpecPhrases
\* the similarity 2 * matches / (len(a) + len(b)) exceeds tenths / 10
SimilarityExceeds(a, b, tenths) ==
    10 * 2 * matches(a, b) > tenths * (Len(a) + Len(b))

\* C19: add_phrase returns false and leaves used_phrases unchanged exactly
\* when the normalized candidate is empty or its similarity to some stored
\* phrase exceeds 0.8; otherwise it returns true and the normalized candidate
\* becomes the last element of used_phrases.
C19_AddPhraseRejectsExactlySimilar ==
    [][ lastCall'.op = "add_phrase"
        => LET normalized == strip(lower(lastCall'.arg))
               old == memory.used_phrases
               new == memory'.used_phrases
           IN  IF normalized = <<>>
                  \/ \E i \in 1..Len(old) : SimilarityExceeds(normalized, old[i], 8)
               THEN ret' = FALSE /\ new = old
               ELSE ret' = TRUE /\ new # <<>> /\ new[Len(new)] = normalized ]_vars

\* a candidate whose similarity to a stored phrase is exactly 0.8 was accepted
C19_Witness ==
    /\ lastCall.op = "add_phrase"
    /\ lastCall.arg = <<"a", "b", "c", "d", "x">>
    /\ ret = TRUE
    /\ \E i \in 1..Len(memory.used_phrases) :
          memory.used_phrases[i] = <<"a", "b", "c", "d", "e">>

\* C20: used_phrases holds at most 50 entries, and they are the most recently
\* accepted phrases in acceptance order.
C20_UsedPhrasesAreLastFifty ==
    /\ Len(memory.used_phrases) <= 50
    /\ Len(memory.used_phrases) = IF Len(accepted) <= 50 THEN Len(accepted) ELSE 50
    /\ \A i \in 1..Len(memory.used_phrases) :
          memory.used_phrases[i]
            = accepted[Len(accepted) - Len(memory.used_phrases) + i]

\* more than 50 phrases were accepted and the oldest ones are gone
C20_Witness ==
    /\ Len(accepted) > 50
    /\ Len(memory.used_phrases) = 50
    /\ memory.used_phrases[1] = accepted[Len(accepted) - 49]
    /\ memory.used_phrases[1] # accepted[1]

\* ====================================================== claims, SpecTension
\* the call is a record_escalation for cid, made directly or by build_prompt
IsEscalationCall(call, cid) ==
    /\ call.op \in {"record_escalation", "build_prompt"}
    /\ call.cid = cid
    /\ call.op = "build_prompt" => is_escalation(detect_intent(call.arg))

\* the level that call returned
ReturnedLevel(call, r) ==
    IF call.op = "record_escalation" THEN r ELSE r.tension_level

IsBuildPrompt(call, cid) == call.op = "build_prompt" /\ call.cid = cid

\* C5: once reveal has been reached for a conversation, every further
\* record_escalation call for it returns REVEAL and leaves escalation_count
\* and the recorded escalation types unchanged.
C5_EscalationAfterRevealIsFrozen ==
    [][ \A cid \in ConversationIds :
          LET old == get_state(conversations, cid)
              new == get_state(conversations', cid)
          IN  (IsEscalationCall(lastCall', cid)
               /\ (old.of_revealed \/ old.current_level = REVEAL))
              => /\ ReturnedLevel(lastCall', ret') = REVEAL
                 /\ new.escalation_count = old.escalation_count
                 /\ new.escalation_types = old.escalation_types ]_vars

\* a record_escalation answered REVEAL although the stored level is lower:
\* the call took the early return of an already revealed conversation
C5_Witness ==
    /\ lastCall.op = "record_escalation"
    /\ ret = REVEAL
    /\ get_state(conversations, "c1").of_revealed
    /\ get_state(conversations, "c1").current_level # REVEAL
    /\ get_state(conversations, "c1").escalation_count >= 1

\* C6: current_level never decreases in the order DEFLECT < TEASE < HINT <
\* REVEAL under any tracker operation, and once REVEAL it stays REVEAL.
C6_TensionLevelNeverDecreases ==
    [][ \A cid \in ConversationIds :
          LET old == get_state(conversations, cid)
              new == get_state(conversations', cid)
          IN  /\ new.current_level >= old.current_level
              /\ old.current_level = REVEAL => new.current_level = REVEAL ]_vars

\* the level climbed to REVEAL on the third escalation and other tracker
\* operations followed
C6_Witness ==
    /\ lastCall.op = "record_interest"
    /\ get_state(conversations, "c1").current_level = REVEAL
    /\ get_state(conversations, "c1").escalation_count = 3

\* C7: after objection_detected has become true, no later build_prompt call
\* proposes a reveal: it does not raise the tension level to REVEAL, and its
\* directive has neither the reveal link section nor a proactive pitch
\* section, whatever the tension level is.
C7_NoRevealAfterObjection ==
    [][ \A cid \in ConversationIds :
          LET old == get_state(conversations, cid)
              new == get_state(conversations', cid)
          IN  (IsBuildPrompt(lastCall', cid) /\ old.objection_detected)
              => /\ new.current_level = REVEAL => old.current_level = REVEAL
                 /\ "OF_LINK" \notin ret'.prompt
                 /\ "PROACTIVE_PITCH" \notin ret'.prompt ]_vars

\* C8: CONVERTED is terminal: no tracker operation changes conversion_state
\* away from CONVERTED.
C8_ConvertedIsTerminal ==
    [][ \A cid \in ConversationIds :
          get_state(conversations, cid).conversion_state = "CONVERTED"
          => get_state(conversations', cid).conversion_state = "CONVERTED" ]_vars

\* C9: processing an inbound message whose intent is SUBSCRIBED moves
\* conversion_state to CONVERTED, and conversion_state becomes CONVERTED on no
\* other input.
C9_SubscribedIntentConverts ==
    [][ \A cid \in ConversationIds :
          LET old == get_state(conversations, cid)
              new == get_state(conversations', cid)
          IN  /\ (IsBuildPrompt(lastCall', cid) /\ ret'.intent.name = "SUBSCRIBED")
                 => new.conversion_state = "CONVERTED"
              /\ (new.conversion_state = "CONVERTED"
                  /\ old.conversion_state # "CONVERTED")
                 => (IsBuildPrompt(lastCall', cid)
                     /\ ret'.intent.name = "SUBSCRIBED") ]_vars

\* C23: record_escalation with an intent label outside the pursuit subset is
\* a no-op: escalation_count, current_level and of_revealed of the
\* conversation are unchanged.
C23_NonPursuitEscalationIsNoOp ==
    [][ \A cid \in ConversationIds :
          LET old == get_state(conversations, cid)
              new == get_state(conversations', cid)
          IN  ( /\ lastCall'.op = "record_escalation"
                /\ lastCall'.cid = cid
                /\ lastCall'.arg[1] \notin escalation_intents )
              => /\ new.escalation_count = old.escalation_count
                 /\ new.current_level = old.current_level
                 /\ new.of_revealed = old.of_revealed ]_vars

\* C24: record_objection leaves conversion_state RESISTANT and
\* objection_detected true, and no tracker operation turns objection_detected
\* from true back to false.
C24_ObjectionIsSticky ==
    [][ \A cid \in ConversationIds :
          LET old == get_state(conversations, cid)
              new == get_state(conversations', cid)
          IN  /\ (lastCall'.op = "record_objection" /\ lastCall'.cid = cid)
                 => /\ new.conversion_state = "RESISTANT"
                    /\ new.objection_detected
              /\ old.objection_detected => new.objection_detected ]_vars

\* an objection was recorded, the conversation converted afterwards, and the
\* flag is still set
C24_Witness ==
    /\ lastCall.op = "record_conversion"
    /\ get_state(conversations, "c1").objection_detected
    /\ get_state(conversations, "c1").conversion_state = "CONVERTED"

\* C25: a record_escalation call that does not resolve to REVEAL stores and
\* returns the level of the new escalation count alone: DEFLECT for 1, TEASE
\* for 2, HINT for 3 and more.
C25_LevelFollowsCount ==
    [][ \A cid \in ConversationIds :
          LET old == get_state(conversations, cid)
              new == get_state(conversations', cid)
          IN  ( /\ lastCall'.op = "record_escalation"
                /\ lastCall'.cid = cid
                /\ ret' # REVEAL )
              => /\ new.escalation_count = old.escalation_count + 1
                 /\ new.current_level = ret'
                 /\ new.escalation_count = 1 => ret' = DEFLECT
                 /\ new.escalation_count = 2 => ret' = TEASE
                 /\ new.escalation_count >= 3 => ret' = HINT ]_vars

\* the third escalation did not reveal and was answered HINT
C25_Witness ==
    /\ lastCall.op = "record_escalation"
    /\ ret = HINT
    /\ get_state(conversations, "c1").escalation_count = 3
    /\ get_state(conversations, "c1").current_level = HINT

\* ========================================================= claims, SpecMood
\* C22: after any sequence of MoodState.update calls, engagement, warmth and
\* patience each lie within [0, 1] (0 to 100 hundredths).
C22_MoodWithinUnitInterval ==
    \A cid \in DOMAIN mood_states :
        /\ mood_states[cid].engagement \in 0..100
        /\ mood_states[cid].warmth \in 0..100
        /\ mood_states[cid].patience \in 0..100

\* an update that would have taken patience and engagement below 0 and left
\* them at the lower limit
C22_Witness ==
    /\ lastCall.op = "update"
    /\ lastCall.arg = << <<"hey">>, "PIC_REQUEST" >>
    /\ get_mood(mood_states, "c1").patience = 0
    /\ get_mood(mood_states, "c1").engagement = 0
    /\ get_mood(mood_states, "c1").warmth = 100

\* C27: a mood update with any label of the pursuit subset (PIC_REQUEST,
\* SEXUAL, MEETUP_REQUEST, CONTACT_REQUEST, COMPLIMENT) lowers patience when
\* patience is above 0, and the labels whose update lowers patience on their
\* own are exactly the labels is_escalation accepts.
C27_PursuitIntentsLowerPatience ==
    [][ \A cid \in ConversationIds :
          LET old == get_mood(mood_states, cid)
              new == get_mood(mood_states', cid)
          IN  ( /\ lastCall'.op = "update"
                /\ lastCall'.cid = cid
                /\ old.patience > 0 )
              => /\ is_escalation([name |-> lastCall'.arg[2]])
                    => new.patience < old.patience
                 /\ (new.patience < old.patience
                     /\ ~Matches(demanding_words, lastCall'.arg[1]))
                    => is_escalation([name |-> lastCall'.arg[2]]) ]_vars

\* C28: a mood update with empty message text and an intent that is neither a
\* pursuit label nor COMPLIMENT leaves engagement, warmth and patience
\* unchanged.
C28_EmptyTextChangesNothing ==
    [][ \A cid \in ConversationIds :
          ( /\ lastCall'.op = "update"
            /\ lastCall'.cid = cid
            /\ lastCall'.arg[1] = <<>>
            /\ lastCall'.arg[2] \notin escalation_intents )
          => get_mood(mood_states', cid) = get_mood(mood_states, cid) ]_vars

\* ======================================================= claims, SpecIntent
\* the positions in INTENT_PRIORITY of the labels with a rule matching the message
MatchingLabels(message) ==
    {i \in 1..Len(INTENT_PRIORITY) : MatchLen(INTENT_PRIORITY[i], message) > 0}

\* C29: detect_intent returns the first label of the priority order that has
\* a matching rule, whichever label matches the longer span, and GENERIC with
\* confidence 0.5 when no rule matches; the confidence is within [0.5, 1.0].
C29_FirstLabelInPriorityOrderWins ==
    lastCall.op = "detect_intent"
    => LET matching == MatchingLabels(lastCall.arg)
       IN  /\ ret.confidence \in 50..100
           /\ matching = {} => ret = [name |-> "GENERIC", confidence |-> 50]
           /\ \A i \in matching :
                (\A j \in matching : i <= j) => ret.name = INTENT_PRIORITY[i]

\* a message matching OBJECTION and, with a longer span, CONTACT_REQUEST was
\* labelled OBJECTION
C29_Witness ==
    /\ lastCall.op = "detect_intent"
    /\ ret.name = "OBJECTION"
    /\ MatchLen("CONTACT_REQUEST", lastCall.arg) > MatchLen("OBJECTION", lastCall.arg)
    /\ ret.confidence = 64

\* ===================================================== claims, SpecMessages
\* C21: after any number of add_message calls, messages holds at most 100
\* entries, and they are the most recently appended ones in append order:
\* after n > 100 appends the first stored entry is the (n-99)-th appended.
C21_MessagesAreLastHundred ==
    LET n == Len(appended)
        k == Len(memory.messages)
    IN  /\ k <= 100
        /\ k = (IF n < 100 THEN n ELSE 100)
        /\ \A i \in 1..k : memory.messages[i] = appended[n - k + i]
        /\ n > 100 => memory.messages[1] = appended[n - 99]

\* 102 messages were appended, one of them out of turn, and the first two
\* are gone
C21_Witness ==
    /\ Len(appended) = 102
    /\ OutOfTurnCount(appended) = 1
    /\ Len(memory.messages) = 100
    /\ memory.messages[1].timestamp = 3
    /\ memory.messages[100].timestamp = 102
    /\ memory.state.conversation_count > 50

\* ========================================================= claims, SpecChat
\* C26: after every completed respond turn, turns answered with silence
\* included, rapport_level equals min(5, 1 + floor(conversation_count / 3)).
C26_RapportFollowsConversationCount ==
    lastCall.op = "respond"
    => LET count == memory.state.conversation_count
       IN  memory.state.rapport_level
             = (IF 1 + (count \div 3) < 5 THEN 1 + (count \div 3) ELSE 5)

\* ======================================================== claims, SpecFrame
\* C30: a tracker or mood operation performed for one conversation id
\* (record_escalation, record_objection, record_conversion, build_prompt,
\* mood update or reset) leaves the escalation state and the mood state of
\* every other conversation id unchanged.
C30_OtherConversationsUnchanged ==
    [][ \A cid \in FrameIds, other \in FrameIds :
          (lastCall'.op # "init" /\ lastCall'.cid = cid /\ other # cid)
          => /\ get_state(conversations', other) = get_state(conversations, other)
             /\ get_mood(mood_states', other) = get_mood(mood_states, other)
             /\ other \in DOMAIN conversations' <=> other \in DOMAIN conversations
             /\ other \in DOMAIN mood_states' <=> other \in DOMAIN mood_states ]_vars

\* c1 has objected and lost patience, and a later prompt built for c2 has
\* changed c2 alone
C30_Witness ==
    /\ lastCall.op = "build_prompt"
    /\ lastCall.cid = "c2"
    /\ get_state(conversations, "c1").objection_detected
    /\ get_mood(mood_states, "c1").patience = 85
    /\ ~get_state(conversations, "c2").objection_detected
    /\ get_state(conversations, "c2").escalation_count = 1
    /\ get_mood(mood_states, "c2").patience = 80

\* ================================================ claims, SpecPhase (second part)
\* C31: of_mentioned only ever changes from false to true: it is false until
\* the first reply with a reveal marker has been processed and true in every
\* state after it, whatever calls follow.
C31_OfMentionedIsMonotonic ==
    state.of_mentioned <=> sinceFirstReveal >= 0

\* a reply without a reveal marker and inbound messages have been processed
\* after the reveal reply, and the flag is still set
C31_Witness ==
    /\ lastCall.op = "process_bot_response"
    /\ ~detect_of_mention(lastCall.arg)
    /\ sinceFirstReveal >= 2
    /\ state.of_mentioned

\* C35: from the moment a reply with a reveal marker has been processed, the
\* phase is POST_PITCH or COLD in every later state, whatever meetup,
\* explicit-content or location inputs arrive.
C35_PostPitchOrColdAfterReveal ==
    sinceFirstReveal >= 0 => state.phase \in {"POST_PITCH", "COLD"}

\* two meetup requests and a location arrived after the reveal reply, and the
\* phase is still POST_PITCH
C35_Witness ==
    /\ IsFanStep(lastCall)
    /\ sinceFirstReveal >= 0
    /\ state.meetup_requests >= 2
    /\ state.location_detected
    /\ state.of_mention_count = 1
    /\ state.meetup_requests + (IF state.location_detected THEN 1 ELSE 0) <= sinceFirstReveal
    /\ state.phase = "POST_PITCH"

\* C36: after the soft deflection of a first meetup request, an inbound
\* message that carries no further pursuit request takes the phase from
\* DEFLECTION back to SMALL_TALK.
C36_DeflectionReturnsToSmallTalk ==
    [][ ( /\ IsFanStep(lastCall')
          /\ state.phase = "DEFLECTION"
          /\ state.her_message_count >= 1
          /\ ~detect_meetup_request(lastCall'.arg)
          /\ ~detect_pic_request(lastCall'.arg)
          /\ ~detect_sexual_escalation(lastCall'.arg) )
        => state'.phase = "SMALL_TALK" ]_vars

\* ============================================== claims, SpecTension (second part)
\* C38: after any sequence of tracker operations the level returned by
\* record_escalation equals the level stored for the conversation, which
\* get_tension_level returns immediately afterwards.
C38_ReturnedLevelIsStoredLevel ==
    lastCall.op = "record_escalation"
        => ret = get_state(conversations, lastCall.cid).current_level

\* ================================================= claims, SpecMood (second part)
\* C39: no mood update increases patience, and an update made while patience
\* is below 0.3 leaves the style directive the annoyed one, whatever
\* engagement and warmth are; only reset brings patience back.
C39_PatienceNeverRecovers ==
    [][ \A cid \in ConversationIds :
          LET old == get_mood(mood_states, cid)
              new == get_mood(mood_states', cid)
          IN  /\ (lastCall'.op = "update" /\ lastCall'.cid = cid)
                 => /\ new.patience <= old.patience
                    /\ old.patience < 30 => get_response_style(new) = "ANNOYED"
              /\ (lastCall'.op = "reset_mood" /\ lastCall'.cid = cid)
                 => new = [engagement |-> 50, warmth |-> 50, patience |-> 100] ]_vars

\* an update without a pursuit label on a conversation whose patience is used
\* up and whose engagement and warmth are high: the style stays annoyed
C39_Witness ==
    /\ lastCall.op = "update"
    /\ lastCall.cid = "c1"
    /\ lastCall.arg[2] = "GENERIC"
    /\ get_mood(mood_states, "c1").patience < 30
    /\ get_mood(mood_states, "c1").engagement > 70
    /\ get_mood(mood_states, "c1").warmth > 70
    /\ get_response_style(get_mood(mood_states, "c1")) = "ANNOYED"

\* ========================================================= claims, SpecPitch
\* C40: across the build_prompt calls of one conversation the proactive pitch
\* section is emitted at most once (a call that emits it finds
\* proactive_pitch_suggested unset and sets it, and no call unsets it), never
\* before the 4th inbound message, and never in a call made after the reveal
\* flag or the objection flag has been set.
C40_ProactivePitchAtMostOnce ==
    [][ LET old == get_state(conversations, "c1")
            new == get_state(conversations', "c1")
        IN  /\ old.proactive_pitch_suggested => new.proactive_pitch_suggested
            /\ (lastCall'.op = "build_prompt" /\ "PROACTIVE_PITCH" \in ret'.prompt)
               => /\ ~old.proactive_pitch_suggested
                  /\ new.proactive_pitch_suggested
                  /\ new.message_count >= 4
                  /\ ~old.of_revealed
                  /\ ~old.objection_detected ]_vars

\* the 4th inbound message got the pitch section and two later build_prompt
\* calls of the same conversation, still without reveal or objection, did not
C40_Witness ==
    /\ lastCall.op = "build_prompt"
    /\ get_state(conversations, "c1").message_count = 6
    /\ get_state(conversations, "c1").proactive_pitch_suggested
    /\ ~get_state(conversations, "c1").of_revealed
    /\ ~get_state(conversations, "c1").objection_detected
    /\ "PROACTIVE_PITCH" \notin ret.prompt

\* ======================================================= claims, SpecManager
\* C32: save then load is a round trip: get_memory after save_memory returns
\* a record equal to the saved one in identity, timestamps, message history,
\* used phrases, profile, state counters and topics.
C32_SaveLoadRoundTrip ==
    lastCall.op = "save_memory"
        => get_memory(fs, memory.fan_id, calls + 1) = Returned(memory)

\* a record with a message, a profile entry and a topic has been saved
C32_Witness ==
    /\ lastCall.op = "save_memory"
    /\ Len(memory.messages) >= 1
    /\ memory.fan_profile["name"] = "Jake"
    /\ memory.topics_covered = <<"personal">>
    /\ get_memory(fs, "f1", calls + 1).memory.topics_covered = <<"personal">>

\* C33: after any sequence of save_memory and delete_memory calls
\* list_all_fans returns exactly the identities that have a durable record;
\* delete_memory of an identity with a record returns true and makes
\* get_memory return None, and delete_memory of an identity without a record
\* returns false and changes nothing.
C33_ListMatchesDurableRecords ==
    /\ list_all_fans(fs).result = DurableIds(fs)
    /\ lastCall.op = "delete_memory"
       => /\ ret = (lastCall.cid \in lastCall.arg)
          /\ get_memory(fs, lastCall.cid, calls + 1).tag = "None"
          /\ DurableIds(fs) = lastCall.arg \ {lastCall.cid}

\* ========================================================== claims, SpecDraw
\* the table of the documentation, in percent
TableValue(k) ==
    CASE k = 1 -> 5 [] k = 2 -> 10 [] k = 3 -> 25 [] k = 4 -> 50 [] k = 5 -> 75
      [] OTHER -> 90

\* C34: the reveal decision at escalation count k succeeds with the tabulated
\* probability: of the 100 equally likely percent buckets of the draw exactly
\* 5, 10, 25, 50, 75 (k = 1..5) and 90 (k >= 6) succeed, and the escalation
\* reveals exactly on those.
C34_RevealRateIsTableValue ==
    (lastCall.op = "record_escalation" /\ lastCall.arg[2] \in Percent)
        => LET k == get_state(conversations, "c1").escalation_count
           IN  /\ Cardinality({roll \in Percent : should_reveal_of(k, roll)})
                      = TableValue(k)
               /\ (lastCall.level = REVEAL) <=> (lastCall.arg[2] < TableValue(k))

\* the sixth escalation revealed on the highest bucket that succeeds at 90%
C34_Witness ==
    /\ lastCall.op = "record_escalation"
    /\ lastCall.arg[2] = 89
    /\ get_state(conversations, "c1").escalation_count = 6
    /\ lastCall.level = REVEAL

\* C37: reveal is possible at every escalation, the first one included, and
\* with a fair draw a conversation whose pursuit intents keep arriving
\* eventually has the level REVEAL.
C37_FairDrawEventuallyReveals ==
    /\ [](~get_state(conversations, "c1").of_revealed
             => \E roll \in Percent :
                    should_reveal_of(get_state(conversations, "c1").escalation_count + 1,
                                     roll))
    /\ <>(get_state(conversations, "c1").current_level = REVEAL)

\* the level REVEAL was reached after five failed draws
C37_Witness ==
    /\ get_state(conversations, "c1").current_level = REVEAL
    /\ get_state(conversations, "c1").of_revealed
    /\ get_state(conversations, "c1").escalation_count = 6
    /\ lastCall.arg[2] = 0

====
